---- MODULE Spec2Model ----
(***************************************************************************)
(* OsitoK kernel: scheduler, tick / interrupt dispatcher, sleep, counting  *)
(* semaphores, mutexes, message queues and software timers.                *)
(*                                                                         *)
(* Every guarded section (irq_save .. irq_restore) and every dispatcher    *)
(* pass (interrupts masked) is one atomic action.  Task-level code runs    *)
(* only as current_task; a tick may arrive between any two task steps.     *)
(***************************************************************************)
EXTENDS Integers, Sequences, FiniteSets

\* ------------------------------------------------------------------ bounds
\* Task slots, idle included (config.h sets 8; the model runs a scaled pool).
MAX_TASKS == 4
\* Width of tick_count / wake_tick / expire_tick in bits (uint32_t in the code).
TickBits == 3
\* Highest priority handed to task_create.
MaxPriority == 1

IDLE_TASK_ID == 0

Tasks == 0 .. (MAX_TASKS - 1)
UserTasks == 1 .. (MAX_TASKS - 1)
TICK_MOD == 2 ^ TickBits
TICK_HALF == 2 ^ (TickBits - 1)
TickVals == 0 .. (TICK_MOD - 1)

Min(S) == CHOOSE x \in S : \A y \in S : x <= y

\* uint32_t addition, at the model's width.
AddTick(a, b) == (a + b) % TICK_MOD

\* (int32_t)(a - b): the unsigned difference reinterpreted as signed.
SignedDiff(a, b) ==
    LET d == (a - b) % TICK_MOD
    IN  IF d >= TICK_HALF THEN d - TICK_MOD ELSE d

VARIABLES
    task_state,      \* task_pool[i].state
    task_priority,   \* task_pool[i].priority
    wake_tick,       \* task_pool[i].wake_tick
    current_task,    \* index of the TCB current_task points at
    last_scheduled,  \* round-robin cursor
    tick_count,      \* global tick counter
    started,         \* sched_start() has run
    pc,              \* where each task stands in its kernel call
    last_pass,       \* observation: the latest action ("tick": a pass with the timer
                     \* pending), and whether schedule() ran in it
    skipped,         \* observation: consecutive schedule() calls that passed over a Ready task
    sleep_req,       \* observation: ticks asked by a pending task_delay_ticks (-1: none)
    sleep_deadline,  \* observation: (tick_count at the call + ticks) mod 2^w
    sleep_seen,      \* observation: tick passes since the call (saturating)
    last_woken,      \* observation: sleepers the latest pass made Ready
    last_op,         \* observation: what the latest semaphore / queue / timer call did
    created,         \* observation: task_create calls that returned a slot
    watch,           \* which observations this specification records (fixed by Init)
    sem_count,       \* sem_t.count, per semaphore
    sem_waiters,     \* sem_t.waiters[0 .. num_waiters-1], per semaphore
    sem_n,           \* the count each semaphore was initialised with
    call,            \* the blocking call each task is inside ("none" outside one)
    holds,           \* task-level: the task is between mutex lock and unlock
    handed,          \* observation: a sem_post handed the task its unit
    sem_net,         \* observation: successful acquisitions minus sem_post calls
    block_order,     \* observation: the tasks blocked on each semaphore, oldest first
    mq_head,         \* mq_t.head (write index)
    mq_tail,         \* mq_t.tail (read index)
    mq_buf,          \* mq_t.buf, one message per slot
    msg,             \* task-level: the message a task is sending, or has received
    next_msg,        \* task-level: messages produced so far (each send carries a new one)
    copied_in,       \* observation: messages in the order they were copied in
    copied_out,      \* observation: messages in the order they were copied out
    slot_live,       \* observation: the slot holds a message not yet copied out
    timers,          \* the swtimer_t objects
    timer_list,      \* timer_list[0 .. timer_count-1]
    mounted,         \* ositofs: the mounted flag
    fs_table,        \* flash: the file table sector, one entry per slot
    fs_data,         \* flash: the data sectors, byte by byte
    fs_file_count,   \* flash: superblock file_count
    sec_buf,         \* the shared 4 KB sector buffer (what it was last loaded with)
    fs_call,         \* task-level: the filesystem call each task is inside
    uart_rx,         \* serial bytes received and not yet read by uart_getc
    uart_tx,         \* serial output of fs_upload, in order
    heap,            \* heap_pool as the chain of blocks its headers describe
    heap_hist,       \* observation: the order of heap calls so far, the live pointers
    free_list,       \* pool: head of the free list
    pool_next,       \* pool: the first word of each block (next free block)
    free_count,      \* pool: free_count
    used_count,      \* pool: used_count
    pool_held        \* observation: blocks pool_alloc returned, not yet freed

kvars == <<task_state, task_priority, wake_tick, current_task,
           last_scheduled, tick_count, started, pc>>
obsvars == <<last_pass, skipped, sleep_req, sleep_deadline, sleep_seen, last_woken,
             last_op, created, watch>>
semvars == <<sem_count, sem_waiters, sem_n, call, holds, handed, sem_net, block_order>>
mqvars == <<mq_head, mq_tail, mq_buf, msg, next_msg, copied_in, copied_out, slot_live>>
tmvars == <<timers, timer_list>>
fsvars == <<mounted, fs_table, fs_data, fs_file_count, sec_buf, fs_call, uart_rx, uart_tx>>
memvars == <<heap, heap_hist, free_list, pool_next, free_count, used_count, pool_held>>

\* ------------------------------------------------------------ scheduler

\* The scan stopping at the first slot in use, Ready or not.
ScanFound_in_use(st, last) ==
    LET hits == { i \in 1 .. MAX_TASKS :
                    /\ st[(last + i) % MAX_TASKS] # "Free"
                    /\ (last + i) % MAX_TASKS # IDLE_TASK_ID }
    IN  IF hits = {} THEN IDLE_TASK_ID ELSE (last + Min(hits)) % MAX_TASKS

\* The scan of schedule(): next = (next + 1) % MAX_TASKS for MAX_TASKS rounds,
\* stopping at the first Ready slot that is not idle; idle when none is found.
ScanFound(st, last) ==
    LET hits == { i \in 1 .. MAX_TASKS :
                    /\ st[(last + i) % MAX_TASKS] = "Ready"
                    /\ (last + i) % MAX_TASKS # IDLE_TASK_ID }
    IN  IF hits = {} THEN IDLE_TASK_ID ELSE (last + Min(hits)) % MAX_TASKS

\* schedule() leaving the current task Running.
Demoted_never(st, cur) == st

\* The task states schedule() scans: the current task demoted if it was Running.
Demoted(st, cur) ==
    IF st[cur] = "Running" THEN [st EXCEPT ![cur] = "Ready"] ELSE st

\* Mutant: the scan restarts at slot 1 on every call instead of after the cursor.
schedule_from_slot0(st, cur, last) ==
    LET st1 == Demoted(st, cur)
        found == ScanFound(st1, IDLE_TASK_ID)
    IN  [state |-> [st1 EXCEPT ![found] = "Running"],
         current_task |-> found,
         last_scheduled |-> found]

schedule(st, cur, last) ==
    LET st1 == Demoted(st, cur)
        found == ScanFound(st1, last)
    IN  [state |-> [st1 EXCEPT ![found] = "Running"],
         current_task |-> found,
         last_scheduled |-> found]

\* The sleep wake scan of the tick branch, with tick_count already incremented.
\* Mutant: the deadline compared unsigned (now >= wake_tick), not by signed difference.
WakeCond_unsigned(st, wk, now, i) ==
    /\ st[i] = "Blocked"
    /\ wk[i] # 0
    /\ now >= wk[i]

WakeCond(st, wk, now, i) ==
    /\ st[i] = "Blocked"
    /\ wk[i] # 0
    /\ SignedDiff(now, wk[i]) >= 0

WakeScan(st, wk, now) ==
    [state |-> [i \in Tasks |-> IF WakeCond(st, wk, now, i) THEN "Ready" ELSE st[i]],
     wake_tick |-> [i \in Tasks |-> IF WakeCond(st, wk, now, i) THEN 0 ELSE wk[i]]]

\* ----------------------------------------------------------- dispatcher

EXCCAUSE_LEVEL1_INTERRUPT == 4
INUM_UART == 5
INUM_SOFT == 7
INUM_TIMER_FRC1 == 9

\* The kernel state a dispatcher pass reads and writes.
K == [state |-> task_state, wake_tick |-> wake_tick,
      current_task |-> current_task, last_scheduled |-> last_scheduled,
      tick_count |-> tick_count]

\* Tick branch: tick_count++, then the wake scan (ticks_run is accounting only
\* and is read by nothing modelled here, so it is left out of the state).
TickBranch(k) ==
    LET now == AddTick(k.tick_count, 1)
        w == WakeScan(k.state, k.wake_tick, now)
    IN  [k EXCEPT !.tick_count = now, !.state = w.state, !.wake_tick = w.wake_tick]

\* Reschedule step at the end of the pass.
Resched(k) ==
    LET r == schedule(k.state, k.current_task, k.last_scheduled)
    IN  [k EXCEPT !.state = r.state, !.current_task = r.current_task,
                  !.last_scheduled = r.last_scheduled]

\* A dispatcher that reschedules once for every pending source.
os_exception_handler_per_source(k, exccause, intr) ==
    IF exccause # EXCCAUSE_LEVEL1_INTERRUPT
    THEN [k |-> k, scheduled |-> FALSE]
    ELSE LET k1 == IF INUM_TIMER_FRC1 \in intr THEN Resched(TickBranch(k)) ELSE k
             k2 == IF INUM_SOFT \in intr THEN Resched(k1) ELSE k1
         IN  [k |-> k2,
              scheduled |-> (INUM_TIMER_FRC1 \in intr) \/ (INUM_SOFT \in intr)]

\* os_exception_handler: exccause and the set of pending interrupt numbers are
\* the inputs; the result carries whether schedule() ran.
os_exception_handler(k, exccause, intr) ==
    IF exccause # EXCCAUSE_LEVEL1_INTERRUPT
    THEN [k |-> k, scheduled |-> FALSE]
    ELSE LET k1 == IF INUM_TIMER_FRC1 \in intr THEN TickBranch(k) ELSE k
             need_schedule == (INUM_TIMER_FRC1 \in intr) \/ (INUM_SOFT \in intr)
         IN  [k |-> IF need_schedule THEN Resched(k1) ELSE k1,
              scheduled |-> need_schedule]

\* ------------------------------------------------------- task management

\* The slot search taking a Dead slot as well as a Free one.
FreeSlot_reuse(st) ==
    LET free == { i \in UserTasks : st[i] \in {"Free", "Dead"} }
    IN  IF free = {} THEN -1 ELSE Min(free)

\* task_create: the first Free slot in 1 .. MAX_TASKS-1, or -1.
FreeSlot(st) ==
    LET free == { i \in UserTasks : st[i] = "Free" }
    IN  IF free = {} THEN -1 ELSE Min(free)

task_create(st, prio, priority) ==
    LET slot == FreeSlot(st)
    IN  IF slot < 0
        THEN [ret |-> -1, state |-> st, priority |-> prio]
        ELSE [ret |-> slot,
              state |-> [st EXCEPT ![slot] = "Ready"],
              priority |-> [prio EXCEPT ![slot] = priority]]

\* task_delay_ticks, guarded section: the wake deadline and the Blocked mark.
task_delay_ticks(st, wk, cur, now, ticks) ==
    [state |-> [st EXCEPT ![cur] = "Blocked"],
     wake_tick |-> [wk EXCEPT ![cur] = AddTick(now, ticks)]]

\* _task_exit_handler: the task function returned.
task_exit(st, cur) == [st EXCEPT ![cur] = "Dead"]

\* ------------------------------------------------------------ semaphores

\* The semaphores of the model: a mutex (mutex_t, initialised to 1), a counting
\* semaphore, and the two semaphores of the message queue.
Sems == {"mutex", "sem", "not_full", "not_empty"}

\* sem_init of each semaphore: the mutex to 1, the counting semaphore to n,
\* and, as mq_init does, not_full to the queue's capacity and not_empty to 0.
InitialCount(n, capacity) ==
    [s \in Sems |-> CASE s = "mutex" -> 1
                      [] s = "sem" -> n
                      [] s = "not_full" -> capacity
                      [] s = "not_empty" -> 0]

SemInit(n, capacity) ==
    /\ sem_count = InitialCount(n, capacity)
    /\ sem_n = InitialCount(n, capacity)
    /\ sem_waiters = [s \in Sems |-> <<>>]
    /\ call = [t \in Tasks |-> "none"]
    /\ holds = [t \in Tasks |-> FALSE]
    /\ handed = [t \in Tasks |-> FALSE]
    /\ sem_net = [s \in Sems |-> 0]
    /\ block_order = [s \in Sems |-> <<>>]

\* sem_wait that queues the caller and leaves it runnable.
sem_wait_stays_ready(cnt, wl, st, cur) ==
    IF cnt > 0
    THEN [took |-> TRUE, count |-> cnt - 1, waiters |-> wl, state |-> st]
    ELSE [took |-> FALSE, count |-> cnt, waiters |-> Append(wl, cur), state |-> st]

\* sem_wait, guarded section: take a unit, or queue the caller and mark it Blocked.
sem_wait(cnt, wl, st, cur) ==
    IF cnt > 0
    THEN [took |-> TRUE, count |-> cnt - 1, waiters |-> wl, state |-> st]
    ELSE [took |-> FALSE, count |-> cnt, waiters |-> Append(wl, cur),
          state |-> [st EXCEPT ![cur] = "Blocked"]]

\* sem_trywait that takes a unit whether or not one is there.
sem_trywait_always(cnt) == [ret |-> 0, count |-> cnt - 1]

\* sem_trywait
sem_trywait(cnt) ==
    IF cnt > 0 THEN [ret |-> 0, count |-> cnt - 1] ELSE [ret |-> -1, count |-> cnt]

\* sem_post that also increments the count when it wakes a waiter.
sem_post_always_counts(cnt, wl, st) ==
    IF Len(wl) > 0
    THEN [woke |-> Head(wl), count |-> cnt + 1, waiters |-> Tail(wl),
          state |-> [st EXCEPT ![Head(wl)] = "Ready"]]
    ELSE [woke |-> -1, count |-> cnt + 1, waiters |-> wl, state |-> st]

\* sem_post that wakes the most recent waiter instead of waiters[0].
sem_post_lifo(cnt, wl, st) ==
    IF Len(wl) > 0
    THEN [woke |-> wl[Len(wl)], count |-> cnt, waiters |-> SubSeq(wl, 1, Len(wl) - 1),
          state |-> [st EXCEPT ![wl[Len(wl)]] = "Ready"]]
    ELSE [woke |-> -1, count |-> cnt + 1, waiters |-> wl, state |-> st]

\* sem_post: wake waiters[0] and shift the queue down, or increment the count.
sem_post(cnt, wl, st) ==
    IF Len(wl) > 0
    THEN [woke |-> Head(wl), count |-> cnt, waiters |-> Tail(wl),
          state |-> [st EXCEPT ![Head(wl)] = "Ready"]]
    ELSE [woke |-> -1, count |-> cnt + 1, waiters |-> wl, state |-> st]

\* ---------------------------------------------------------- message queue

\* Queue capacity in messages (main.cpp makes hb_mq 4 deep; the model's is smaller).
MqCapacity == 2
\* Messages the senders produce in one behaviour.
MaxMsgs == 3

Slots == 0 .. (MqCapacity - 1)

\* mq_init: empty ring (its two sem_init calls are in SemInit).
MqInit ==
    /\ mq_head = 0
    /\ mq_tail = 0
    /\ mq_buf = [i \in Slots |-> 0]
    /\ msg = [t \in Tasks |-> 0]
    /\ next_msg = 0
    /\ copied_in = <<>>
    /\ copied_out = <<>>
    /\ slot_live = [i \in Slots |-> FALSE]

\* A copy-in that leaves head where it was.
mq_put_no_advance(buf, head, m) ==
    [buf |-> [buf EXCEPT ![head] = m], head |-> head]

\* The guarded copy of mq_send / mq_trysend: store at head, advance head.
mq_put(buf, head, m) ==
    [buf |-> [buf EXCEPT ![head] = m], head |-> (head + 1) % MqCapacity]

\* A copy-out that leaves tail where it was.
mq_get_no_advance(buf, tail) ==
    [msg |-> buf[tail], tail |-> tail]

\* The guarded copy of mq_recv / mq_tryrecv: load from tail, advance tail.
mq_get(buf, tail) ==
    [msg |-> buf[tail], tail |-> (tail + 1) % MqCapacity]

\* mq_count: the count of not_empty, cut to uint16_t, 0 when negative.
mq_count(not_empty) == IF not_empty >= 0 THEN not_empty % (2 ^ 16) ELSE 0

\* --------------------------------------------------------- software timers

\* Timer objects the tasks own.
NumTimers == 2
\* Registry slots (code: 8), scaled so that one timer more than the registry
\* holds can be started.
SWTIMER_MAX == 2
SWTIMER_ONESHOT == 0
SWTIMER_PERIODIC == 1

TimerIds == 1 .. NumTimers

\* swtimer_init on every timer, empty registry.
TimerInit ==
    /\ timers = [t \in TimerIds |->
                   [interval |-> 0, expire_tick |-> 0, mode |-> SWTIMER_ONESHOT, active |-> 0]]
    /\ timer_list = <<>>

\* swtimer_init applied to one timer object.
swtimer_init(tm, t) ==
    [tm EXCEPT ![t] = [interval |-> 0, expire_tick |-> 0,
                       mode |-> SWTIMER_ONESHOT, active |-> 0]]

\* swtimer_register: no duplicate, no more than SWTIMER_MAX entries.
swtimer_register(list, t) ==
    IF \E i \in 1 .. Len(list) : list[i] = t THEN list
    ELSE IF Len(list) < SWTIMER_MAX THEN Append(list, t)
    ELSE list

\* swtimer_unregister: remove the entry, shifting the rest down.
swtimer_unregister(list, t) == SelectSeq(list, LAMBDA x : x # t)

swtimer_start(tm, list, t, now, ticks, mode) ==
    [timers |-> [tm EXCEPT ![t] = [interval |-> ticks, expire_tick |-> AddTick(now, ticks),
                                   mode |-> mode, active |-> 1]],
     list |-> swtimer_register(list, t)]

swtimer_stop(tm, list, t) ==
    [timers |-> [tm EXCEPT ![t].active = 0],
     list |-> swtimer_unregister(list, t)]

\* An expiry test that is one tick late.
TimerDue_strict(now, expire) == SignedDiff(now, expire) > 0

\* An expiry test on the raw unsigned values.
TimerDue_unsigned(now, expire) == now >= expire

\* The expiry test of swtimer_tick: (int32_t)(tick_count - expire_tick) >= 0.
TimerDue(now, expire) == SignedDiff(now, expire) >= 0

\* The loop of swtimer_tick from index i (the code's i + 1); calls is the
\* record of callback invocations, each with the timer's active flag and the
\* signed difference at the time of the call.
RECURSIVE swtimer_tick_from(_, _, _, _, _)
swtimer_tick_from(i, tm, list, now, calls) ==
    IF i > Len(list) THEN [timers |-> tm, list |-> list, calls |-> calls]
    ELSE LET t == list[i]
         IN  IF tm[t].active = 0 THEN swtimer_tick_from(i + 1, tm, list, now, calls)
             ELSE IF TimerDue(now, tm[t].expire_tick)
             THEN LET c == Append(calls, [id |-> t, active |-> tm[t].active,
                                          diff |-> SignedDiff(now, tm[t].expire_tick)])
                  IN  IF tm[t].mode = SWTIMER_PERIODIC
                      THEN swtimer_tick_from(i + 1,
                               [tm EXCEPT ![t].expire_tick = AddTick(now, tm[t].interval)],
                               list, now, c)
                      ELSE swtimer_tick_from(i, [tm EXCEPT ![t].active = 0],
                               swtimer_unregister(list, t), now, c)
             ELSE swtimer_tick_from(i + 1, tm, list, now, calls)

swtimer_tick(tm, list, now) == swtimer_tick_from(1, tm, list, now, <<>>)

\* What a timer callback does with the timer API: nothing, swtimer_start of
\* timer t for one tick in the given mode, or swtimer_stop of timer t.
CallbackActs ==
    [kind : {"none"}, t : {0}, mode : {SWTIMER_ONESHOT}]
        \cup [kind : {"start"}, t : TimerIds, mode : {SWTIMER_ONESHOT, SWTIMER_PERIODIC}]
        \cup [kind : {"stop"}, t : TimerIds, mode : {SWTIMER_ONESHOT}]

\* t->callback(t->arg) for a callback that makes the call a.
callback(a, tm, list, now) ==
    IF a.kind = "start" THEN swtimer_start(tm, list, a.t, now, 1, a.mode)
    ELSE IF a.kind = "stop" THEN swtimer_stop(tm, list, a.t)
    ELSE [timers |-> tm, list |-> list]

\* The loop of swtimer_tick from index i when the callback of timer t makes
\* the call cb[t]: the loop goes on with the registry and the mode the
\* callback left.
RECURSIVE swtimer_tick_cb(_, _, _, _, _, _)
swtimer_tick_cb(i, tm, list, now, calls, cb) ==
    IF i > Len(list) THEN [timers |-> tm, list |-> list, calls |-> calls]
    ELSE LET t == list[i]
         IN  IF tm[t].active = 0 THEN swtimer_tick_cb(i + 1, tm, list, now, calls, cb)
             ELSE IF TimerDue(now, tm[t].expire_tick)
             THEN LET c == Append(calls, [id |-> t, active |-> tm[t].active,
                                          diff |-> SignedDiff(now, tm[t].expire_tick)])
                      r == callback(cb[t], tm, list, now)
                  IN  IF r.timers[t].mode = SWTIMER_PERIODIC
                      THEN swtimer_tick_cb(i + 1,
                               [r.timers EXCEPT ![t].expire_tick =
                                                    AddTick(now, r.timers[t].interval)],
                               r.list, now, c, cb)
                      ELSE swtimer_tick_cb(i, [r.timers EXCEPT ![t].active = 0],
                               swtimer_unregister(r.list, t), now, c, cb)
             ELSE swtimer_tick_cb(i + 1, tm, list, now, calls, cb)

swtimer_active_count(list) == Len(list)

\* One timer object more than the registry has slots.
RegistryTimers == 1 .. SWTIMER_MAX + 1

\* ------------------------------------------------------------- filesystem

\* Scaled flash geometry: FS_SECTOR_SIZE bytes per sector (code: 4096, a
\* multiple of the 4-byte flash word), FS_DATA_SECTORS data sectors (code: 958),
\* FS_MAX_FILES table entries (code: 128), FS_NAME_LEN name bytes (code: 24),
\* sizes of SizeBits bits (code: uint32_t), sector counts of NsecBits bits
\* (code: uint16_t).  The widths keep the code's order of magnitudes: twice
\* the data area is below the sector-count modulus, which is below the
\* size modulus in sectors (2 * D < NSEC_MOD < SIZE_MOD / S).
WordBytes == 2
SectorWords == 1
FS_SECTOR_SIZE == WordBytes * SectorWords
FS_DATA_SECTORS == 3
FS_MAX_FILES == 2
FS_NAME_LEN == 3
SizeBits == 5
NsecBits == 3
SIZE_MOD == 2 ^ SizeBits
NSEC_MOD == 2 ^ NsecBits

Sectors == 0 .. (FS_DATA_SECTORS - 1)
FileSlots == 0 .. (FS_MAX_FILES - 1)
ERASED == 255
\* What lies in the caller's memory after the end of its data.
JUNK == 0

\* The caller's buffer: `size` bytes carrying the buffer's mark, then junk.
SrcByte(tag, size, i) == IF i <= size THEN tag ELSE JUNK

\* ets_memset(e, 0, sizeof(fs_entry_t))
NoEntry == [name |-> <<>>, size |-> 0, start_sector |-> 0, sector_count |-> 0]

\* fs_format: zero-filled table, superblock with file_count 0.
FsFormatted == [table |-> [i \in FileSlots |-> NoEntry],
                data |-> [d \in Sectors |-> [j \in 1 .. FS_SECTOR_SIZE |-> ERASED]],
                count |-> 0,
                buf |-> "super"]

\* fs_strncpy(dst, src, n): at most n-1 bytes, NUL-filled.
fs_strncpy(src, n) == SubSeq(src, 1, IF Len(src) < n - 1 THEN Len(src) ELSE n - 1)

\* entry_free: name[0] is NUL or 0xFF.
entry_free(e) == e.name = <<>> \/ Head(e.name) = ERASED

\* find_file: fs_strcmp of the stored name against the whole name passed.
find_file(table, name) ==
    LET hits == { i \in FileSlots : ~entry_free(table[i]) /\ table[i].name = name }
    IN  IF hits = {} THEN -1 ELSE Min(hits)

find_free_slot(table) ==
    LET hits == { i \in FileSlots : entry_free(table[i]) }
    IN  IF hits = {} THEN -1 ELSE Min(hits)

\* build_bitmap: the data sectors below FS_DATA_SECTORS covered by an entry.
build_bitmap(table) ==
    { b \in Sectors : \E i \in FileSlots :
          /\ ~entry_free(table[i])
          /\ \E k \in 0 .. (table[i].sector_count - 1) : b = table[i].start_sector + k }

\* A run-finder that does not move `start` past a marked sector.
RECURSIVE alloc_scan_keep_start(_, _, _, _, _)
alloc_scan_keep_start(bmap, count, i, run, start) ==
    IF i >= FS_DATA_SECTORS THEN -1
    ELSE IF i \in bmap THEN alloc_scan_keep_start(bmap, count, i + 1, 0, start)
    ELSE IF run + 1 >= count THEN start
    ELSE alloc_scan_keep_start(bmap, count, i + 1, run + 1, start)

\* alloc_sectors: the loop from index i with the run and start it carries.
RECURSIVE alloc_scan(_, _, _, _, _)
alloc_scan(bmap, count, i, run, start) ==
    IF i >= FS_DATA_SECTORS THEN -1
    ELSE IF i \in bmap THEN alloc_scan(bmap, count, i + 1, 0, i + 1)
    ELSE IF run + 1 >= count THEN start
    ELSE alloc_scan(bmap, count, i + 1, run + 1, start)

alloc_sectors(bmap, count) == alloc_scan(bmap, count, 0, 0, 0)

count_free(bmap) == Cardinality(Sectors \ bmap)

\* (uint16_t)((size + FS_SECTOR_SIZE - 1) / FS_SECTOR_SIZE), the sum in uint32_t.
SectorsFor(size) ==
    (((size + FS_SECTOR_SIZE - 1) % SIZE_MOD) \div FS_SECTOR_SIZE) % NSEC_MOD

\* (chunk + 3) & ~3u, in flash words.
WordAlign(n) == ((n + WordBytes - 1) \div WordBytes) * WordBytes

\* Chunk written to the k-th sector of a payload of `size` bytes.
ChunkOf(size, k) ==
    LET remaining == size - k * FS_SECTOR_SIZE
    IN  IF remaining > FS_SECTOR_SIZE THEN FS_SECTOR_SIZE ELSE remaining

\* flash_erase_sector then flash_write of write_len bytes taken from the
\* caller's buffer at byte offset off.
WrittenSector(tag, size, off, write_len) ==
    [j \in 1 .. FS_SECTOR_SIZE |->
        IF j <= write_len THEN SrcByte(tag, size, off + j) ELSE ERASED]

\* The data loop of fs_create / fs_overwrite: nsec sectors from start.
WritePayload(data, start, nsec, tag, size) ==
    [d \in Sectors |->
        IF d >= start /\ d < start + nsec
        THEN WrittenSector(tag, size, (d - start) * FS_SECTOR_SIZE,
                           WordAlign(ChunkOf(size, d - start)))
        ELSE data[d]]

\* A failed call: nothing written.
FsFail(f, why) == [ret |-> -1, why |-> why, f |-> f]

\* read_table() leaves the table in sec_buf, write_super() the superblock.
fs_create(f, name, tag, size) ==
    IF ~f.mounted THEN FsFail(f, "unmounted")
    ELSE IF name = <<>> \/ size = 0 THEN FsFail(f, "badarg")
    ELSE IF find_file(f.table, name) >= 0 THEN FsFail([f EXCEPT !.buf = "table"], "exists")
    ELSE LET slot == find_free_slot(f.table)
             nsec == SectorsFor(size)
             start == alloc_sectors(build_bitmap(f.table), nsec)
         IN  IF slot < 0 THEN FsFail([f EXCEPT !.buf = "table"], "noslot")
             ELSE IF start < 0 THEN FsFail([f EXCEPT !.buf = "table"], "nospace")
             ELSE [ret |-> 0, why |-> "ok",
                   f |-> [f EXCEPT
                       !.data = WritePayload(f.data, start, nsec, tag, size),
                       !.table[slot] = [name |-> fs_strncpy(name, FS_NAME_LEN),
                                        size |-> size,
                                        start_sector |-> start,
                                        sector_count |-> nsec],
                       !.count = (f.count + 1) % SIZE_MOD,
                       !.buf = "super"]]

\* (int) of a uint32_t: the upper half of the range reads as negative.
ToInt(v) == IF v >= SIZE_MOD \div 2 THEN v - SIZE_MOD ELSE v

\* The byte at offset off of the data area (flash outside it reads as junk).
FlashByte(data, off) ==
    IF (off \div FS_SECTOR_SIZE) \in Sectors
    THEN data[off \div FS_SECTOR_SIZE][(off % FS_SECTOR_SIZE) + 1]
    ELSE JUNK

\* fs_read: min(size, max_size) bytes from the start sector on; out is what
\* the caller finds in the first ret bytes of its buffer.
fs_read(f, name, max_size) ==
    IF ~f.mounted THEN [ret |-> -1, out |-> <<>>, f |-> f]
    ELSE LET idx == find_file(f.table, name)
             g == [f EXCEPT !.buf = "table"]
         IN  IF idx < 0 THEN [ret |-> -1, out |-> <<>>, f |-> g]
             ELSE LET e == f.table[idx]
                      to_read == IF e.size < max_size THEN e.size ELSE max_size
                  IN  [ret |-> ToInt(to_read),
                       out |-> [j \in 1 .. to_read |->
                                  FlashByte(f.data, e.start_sector * FS_SECTOR_SIZE + j - 1)],
                       f |-> g]

\* Bytes of the bounce buffer of flash_read (code: 64).
FlashTmp == 2 * WordBytes

\* flash_read(addr, dst, len) into the caller's memory mem, whose first byte
\* is dst: SPIRead straight into an aligned dst, or through the aligned bounce
\* buffer in chunks of at most FlashTmp bytes; off is addr's offset in the
\* data area, done the number of bytes already copied.  A byte of mem is <<>>
\* while nothing was written to it and <<b>> once b was.
RECURSIVE flash_read(_, _, _, _, _, _)
flash_read(data, off, mem, len, aligned, done) ==
    IF aligned
    THEN [j \in 1 .. Len(mem) |-> IF j <= len THEN <<FlashByte(data, off + j - 1)>> ELSE mem[j]]
    ELSE IF len = 0 THEN mem
    ELSE LET n == IF len > FlashTmp THEN FlashTmp ELSE len
             tmp == [k \in 1 .. WordAlign(n) |-> FlashByte(data, off + k - 1)]
         IN  flash_read(data, off + n,
                        [j \in 1 .. Len(mem) |->
                            IF j > done /\ j <= done + n THEN <<tmp[j - done]>> ELSE mem[j]],
                        len - n, aligned, done + n)

\* fs_read(name, buf, max_size) with the caller's memory: mem[1 .. max_size]
\* is the buffer, the rest is what follows it in memory.
fs_read_buf(f, name, mem, max_size, aligned) ==
    IF ~f.mounted THEN [ret |-> -1, mem |-> mem, f |-> f]
    ELSE LET idx == find_file(f.table, name)
             g == [f EXCEPT !.buf = "table"]
         IN  IF idx < 0 THEN [ret |-> -1, mem |-> mem, f |-> g]
             ELSE LET e == f.table[idx]
                      to_read == IF e.size < max_size THEN e.size ELSE max_size
                      read_len == WordAlign(to_read) % SIZE_MOD
                  IN  [ret |-> ToInt(to_read),
                       mem |-> flash_read(f.data, e.start_sector * FS_SECTOR_SIZE, mem,
                                          read_len, aligned, 0),
                       f |-> g]

fs_stat(f, name) ==
    IF ~f.mounted THEN [ret |-> -1, f |-> f]
    ELSE LET idx == find_file(f.table, name)
         IN  [ret |-> IF idx < 0 THEN -1 ELSE ToInt(f.table[idx].size),
              f |-> [f EXCEPT !.buf = "table"]]

fs_free(f) ==
    IF ~f.mounted THEN [ret |-> 0, f |-> f]
    ELSE [ret |-> count_free(build_bitmap(f.table)) * FS_SECTOR_SIZE,
          f |-> [f EXCEPT !.buf = "table"]]

\* Clear entry idx, rewrite the table, decrement the superblock count.
DropEntry(f, idx) ==
    [f EXCEPT !.table[idx] = NoEntry,
              !.count = IF f.count > 0 THEN f.count - 1 ELSE f.count,
              !.buf = "super"]

fs_delete(f, name) ==
    IF ~f.mounted THEN FsFail(f, "unmounted")
    ELSE LET idx == find_file(f.table, name)
         IN  IF idx < 0 THEN FsFail([f EXCEPT !.buf = "table"], "notfound")
             ELSE [ret |-> 0, why |-> "ok", f |-> DropEntry(f, idx)]

fs_rename(f, old_name, new_name) ==
    IF ~f.mounted THEN FsFail(f, "unmounted")
    ELSE IF old_name = <<>> \/ new_name = <<>> THEN FsFail(f, "badarg")
    ELSE LET idx == find_file(f.table, old_name)
             g == [f EXCEPT !.buf = "table"]
         IN  IF idx < 0 THEN FsFail(g, "notfound")
             ELSE IF find_file(f.table, new_name) >= 0 THEN FsFail(g, "exists")
             ELSE [ret |-> 0, why |-> "ok",
                   f |-> [g EXCEPT !.table[idx].name = fs_strncpy(new_name, FS_NAME_LEN)]]

\* Erase the sectors start .. start+count-1 that lie in the data area.
EraseRun(data, start, count) ==
    [d \in Sectors |->
        IF d >= start /\ d < start + count
        THEN [j \in 1 .. FS_SECTOR_SIZE |-> ERASED]
        ELSE data[d]]

fs_overwrite(f, name, tag, size) ==
    IF ~f.mounted THEN FsFail(f, "unmounted")
    ELSE IF name = <<>> \/ size = 0 THEN FsFail(f, "badarg")
    ELSE LET idx == find_file(f.table, name)
         IN  IF idx < 0 THEN fs_create(f, name, tag, size)
             ELSE LET e == f.table[idx]
                      new_nsec == SectorsFor(size)
                  IN  IF new_nsec <= e.sector_count
                      THEN [ret |-> 0, why |-> "ok",
                            f |-> [f EXCEPT
                                !.data = WritePayload(
                                             EraseRun(f.data, e.start_sector, e.sector_count),
                                             e.start_sector, new_nsec, tag, size),
                                !.table[idx].size = size,
                                !.table[idx].sector_count = new_nsec,
                                !.buf = "table"]]
                      ELSE fs_create(DropEntry(f, idx), name, tag, size)

\* Store a sector image; a sector index past the data area is flash that
\* does not belong to the filesystem (the data map is left alone).
\* (A sector index past the data area addresses flash outside the filesystem.)
PutSector(data, sec, image) ==
    IF sec \in Sectors THEN [data EXCEPT ![sec] = image] ELSE data

\* The read-modify-write of fs_append's partially filled sector: chunk bytes of
\* the caller's data laid over the sector at offset_in_sec.
PatchedSector(data, sec, offset_in_sec, chunk, tag, size) ==
    [j \in 1 .. FS_SECTOR_SIZE |->
        IF j > offset_in_sec /\ j <= offset_in_sec + chunk
        THEN SrcByte(tag, size, j - offset_in_sec)
        ELSE FlashByte(data, sec * FS_SECTOR_SIZE + j - 1)]

\* fs_append's loop over the following sectors; src_off bytes of the caller's
\* data are already written, write_pos is a uint32_t.
RECURSIVE AppendSectors(_, _, _, _, _, _, _)
AppendSectors(data, start, tag, size, src_off, remaining, write_pos) ==
    IF remaining = 0 THEN data
    ELSE LET sec == start + (write_pos \div FS_SECTOR_SIZE)
             chunk == IF remaining > FS_SECTOR_SIZE THEN FS_SECTOR_SIZE ELSE remaining
         IN  AppendSectors(
                 PutSector(data, sec, WrittenSector(tag, size, src_off, WordAlign(chunk))),
                 start, tag, size, src_off + chunk, remaining - chunk,
                 (write_pos + chunk) % SIZE_MOD)

fs_append(f, name, tag, size) ==
    IF ~f.mounted \/ size = 0 THEN FsFail(f, "badarg")
    ELSE LET idx == find_file(f.table, name)
             g == [f EXCEPT !.buf = "table"]
         IN  IF idx < 0 THEN FsFail(g, "notfound")
             ELSE LET e == f.table[idx]
                      old_size == e.size
                      new_total == (old_size + size) % SIZE_MOD
                      offset_in_sec == old_size % FS_SECTOR_SIZE
                      space == FS_SECTOR_SIZE - offset_in_sec
                      first == IF offset_in_sec = 0 THEN 0
                               ELSE IF size < space THEN size ELSE space
                      sec == e.start_sector + (old_size \div FS_SECTOR_SIZE)
                      d1 == IF offset_in_sec = 0 THEN f.data
                            ELSE PutSector(f.data, sec,
                                     PatchedSector(f.data, sec, offset_in_sec, first,
                                                   tag, size))
                  IN  IF SectorsFor(new_total) > e.sector_count THEN FsFail(g, "wontfit")
                      ELSE [ret |-> 0, why |-> "ok",
                            f |-> [g EXCEPT
                                !.data = AppendSectors(d1, e.start_sector, tag, size,
                                             first, size - first,
                                             (old_size + first) % SIZE_MOD),
                                !.table[idx].size = new_total]]

\* --------------------------------------------------------- fs_upload

\* a XOR b on the low n bits.
RECURSIVE BitXor(_, _, _)
BitXor(a, b, n) ==
    IF n = 0 THEN 0
    ELSE ((a + b) % 2) + 2 * BitXor(a \div 2, b \div 2, n - 1)

CRC_MOD == 65536
CRC_INIT == 65535
CRC_POLY == 4129

\* One round of the inner loop: shift left, XOR the polynomial in when the
\* top bit was set.
RECURSIVE crc_shift(_, _)
crc_shift(crc, rounds) ==
    IF rounds = 0 THEN crc
    ELSE crc_shift(IF crc >= CRC_MOD \div 2
                   THEN BitXor((crc * 2) % CRC_MOD, CRC_POLY, 16)
                   ELSE (crc * 2) % CRC_MOD, rounds - 1)

\* crc ^= byte << 8, then eight rounds.
crc_update(crc, byte) == crc_shift(BitXor(crc, byte * 256, 16), 8)

RECURSIVE crc_over(_, _, _)
crc_over(crc, data, i) ==
    IF i > Len(data) THEN crc ELSE crc_over(crc_update(crc, data[i]), data, i + 1)

fs_crc16(data) == crc_over(CRC_INIT, data, 1)

HEX == <<"0", "1", "2", "3", "4", "5", "6", "7", "8", "9", "a", "b", "c", "d", "e", "f">>

\* The n low hexadecimal digits of val, most significant first.
HexDigits(val, n) == [i \in 1 .. n |-> HEX[((val \div (16 ^ (n - i))) % 16) + 1]]

\* A variant of uart_put_hex that prints a 16-bit value.
uart_put_hex16(val) == <<"0x">> \o HexDigits(val, 4)

\* uart_put_hex takes a uint32_t and prints "0x" and all eight digits.
uart_put_hex(val) == <<"0x">> \o HexDigits(val, 8)

\* get_tick_count() - timeout_start in unsigned arithmetic.
TickDiff(now, since) == (now - since + TICK_MOD) % TICK_MOD

\* fs_upload up to "READY": the old file of that name is dropped, a slot and a
\* run are taken, the entry is stamped with the full size.
fs_upload_begin(f, name, total_size) ==
    IF ~f.mounted THEN FsFail(f, "unmounted")
    ELSE IF name = <<>> \/ total_size = 0 THEN FsFail(f, "badarg")
    ELSE LET old_idx == find_file(f.table, name)
             g == IF old_idx >= 0 THEN [DropEntry(f, old_idx) EXCEPT !.buf = "table"]
                  ELSE [f EXCEPT !.buf = "table"]
             slot == find_free_slot(g.table)
             nsec == SectorsFor(total_size)
             start == alloc_sectors(build_bitmap(g.table), nsec)
         IN  IF slot < 0 THEN FsFail(g, "noslot")
             ELSE IF start < 0 THEN FsFail(g, "nospace")
             ELSE [ret |-> 0, why |-> "ok", slot |-> slot, start |-> start, nsec |-> nsec,
                   f |-> [g EXCEPT
                       !.table[slot] = [name |-> fs_strncpy(name, FS_NAME_LEN),
                                        size |-> total_size,
                                        start_sector |-> start,
                                        sector_count |-> nsec],
                       !.count = (g.count + 1) % SIZE_MOD,
                       !.buf = "super"]]

\* Byte k (from 0) of a little-endian integer field.
LEByte(v, k) == (v \div (256 ^ k)) % 256

\* FS_MAGIC 0x4F534654 as it lies in memory.
FS_MAGIC_BYTES == <<84, 70, 83, 79>>

\* sizeof(fs_entry_t): the name, a uint32_t size, two uint16_t sector fields.
EntryBytes == FS_NAME_LEN + 8

\* Byte j (from 1) of sec_buf after read_table(): the entries one after the
\* other, then the zero fill of fs_format.
TableImage(table, j) ==
    LET e == (j - 1) \div EntryBytes
        o == (j - 1) % EntryBytes
    IN  IF e \notin FileSlots THEN 0
        ELSE IF o < FS_NAME_LEN
             THEN (IF o < Len(table[e].name) THEN table[e].name[o + 1] ELSE 0)
        ELSE IF o < FS_NAME_LEN + 4 THEN LEByte(table[e].size, o - FS_NAME_LEN)
        ELSE IF o < FS_NAME_LEN + 6 THEN LEByte(table[e].start_sector, o - FS_NAME_LEN - 4)
        ELSE LEByte(table[e].sector_count, o - FS_NAME_LEN - 6)

\* Byte j (from 1) of sec_buf after write_super(): magic, version 1,
\* total_sectors, file_count, then 0xFF.
SuperImage(count, j) ==
    IF j <= 4 THEN FS_MAGIC_BYTES[j]
    ELSE IF j <= 8 THEN LEByte(1, j - 5)
    ELSE IF j <= 12 THEN LEByte(FS_DATA_SECTORS, j - 9)
    ELSE IF j <= 16 THEN LEByte(count, j - 13)
    ELSE ERASED

\* sec_buf as written to flash: the bytes received, then 0xFF to the end.
PaddedSector(bytes) ==
    [j \in 1 .. FS_SECTOR_SIZE |-> IF j <= Len(bytes) THEN bytes[j] ELSE ERASED]

\* Flash that was never formatted reads as 0xFF throughout.
FsBlank ==
    /\ mounted = FALSE
    /\ fs_table = [i \in FileSlots |->
                     [name |-> <<ERASED>>, size |-> SIZE_MOD - 1,
                      start_sector |-> NSEC_MOD - 1, sector_count |-> NSEC_MOD - 1]]
    /\ fs_data = [d \in Sectors |-> [j \in 1 .. FS_SECTOR_SIZE |-> ERASED]]
    /\ fs_file_count = SIZE_MOD - 1
    /\ sec_buf = "zero"
    /\ fs_call = [t \in Tasks |-> [op |-> "none"]]
    /\ uart_rx = <<>>
    /\ uart_tx = <<>>

\* The filesystem as the operations see it.
FS == [mounted |-> mounted, table |-> fs_table, data |-> fs_data,
       count |-> fs_file_count, buf |-> sec_buf]

\* fs_format has run on blank flash.
FsAfterFormat ==
    /\ mounted = TRUE
    /\ fs_table = FsFormatted.table
    /\ fs_data = FsFormatted.data
    /\ fs_file_count = FsFormatted.count
    /\ sec_buf = FsFormatted.buf
    /\ fs_call = [t \in Tasks |-> [op |-> "none"]]
    /\ uart_rx = <<>>
    /\ uart_tx = <<>>

\* ------------------------------------------------------------------ heap

\* Words of four bytes in heap_pool (config.h sets HEAP_SIZE to 8192, 2048
\* words; the model runs a scaled heap).
HeapWords == 8
HEAP_SIZE == 4 * HeapWords
\* Width of uint32_t sizes and addresses in bits (32 in the code).
HeapBits == 6
HEAP_WORD == 2 ^ HeapBits

HDR_SIZE == 4
MIN_DATA == 4
\* Pointers are byte offsets into heap_pool; no payload starts at offset 0.
NULL == 0

\* ALIGN4(x): (x + 3) & ~3u, in uint32_t arithmetic.
ALIGN4(x) == (((x + 3) % HEAP_WORD) \div 4) * 4

\* Offset of the header of block i: the sizes before it, added up.
RECURSIVE BlockAddr(_, _)
BlockAddr(h, i) == IF i = 1 THEN 0 ELSE BlockAddr(h, i - 1) + h[i - 1].size

\* heap_init: one free block spanning the region.
heap_init == << [size |-> HEAP_SIZE, used |-> FALSE] >>

\* A coalescing loop that absorbs the following block, used or not.
RECURSIVE Coalesce_any(_, _)
Coalesce_any(h, i) ==
    IF i < Len(h)
    THEN Coalesce_any(SubSeq(h, 1, i - 1)
                        \o << [size |-> h[i].size + h[i + 1].size, used |-> h[i].used] >>
                        \o SubSeq(h, i + 2, Len(h)), i)
    ELSE h

\* The coalescing loop of heap_alloc and heap_free: block i absorbs every free
\* block that follows it directly.
RECURSIVE Coalesce(_, _)
Coalesce(h, i) ==
    IF i < Len(h) /\ ~h[i + 1].used
    THEN Coalesce(SubSeq(h, 1, i - 1)
                    \o << [size |-> h[i].size + h[i + 1].size, used |-> h[i].used] >>
                    \o SubSeq(h, i + 2, Len(h)), i)
    ELSE h

\* heap_free without the coalescing loop.
NoCoalesce(h, i) == h

\* The block a fitting free block i becomes: split when the rest can hold a
\* header and MIN_DATA bytes, handed out whole otherwise.
Carve(h, i, need) ==
    LET bsz == h[i].size
    IN  IF bsz - need >= HDR_SIZE + MIN_DATA
        THEN SubSeq(h, 1, i - 1)
               \o << [size |-> need, used |-> TRUE],
                     [size |-> bsz - need, used |-> FALSE] >>
               \o SubSeq(h, i + 1, Len(h))
        ELSE [h EXCEPT ![i].used = TRUE]

\* The first-fit scan of heap_alloc from block i on.
RECURSIVE AllocScan(_, _, _)
AllocScan(h, i, need) ==
    IF i > Len(h) THEN [heap |-> h, ret |-> NULL]
    ELSE IF h[i].used THEN AllocScan(h, i + 1, need)
    ELSE LET m == Coalesce(h, i)
         IN  IF m[i].size >= need
             THEN [heap |-> Carve(m, i, need), ret |-> BlockAddr(m, i) + HDR_SIZE]
             ELSE AllocScan(m, i + 1, need)

\* The scan without the merging of adjacent free blocks.
RECURSIVE AllocScanNoMerge(_, _, _)
AllocScanNoMerge(h, i, need) ==
    IF i > Len(h) THEN [heap |-> h, ret |-> NULL]
    ELSE IF ~h[i].used /\ h[i].size >= need
    THEN [heap |-> Carve(h, i, need), ret |-> BlockAddr(h, i) + HDR_SIZE]
    ELSE AllocScanNoMerge(h, i + 1, need)

Need(size) ==
    LET n == (ALIGN4(size) + HDR_SIZE) % HEAP_WORD
    IN  IF n < HDR_SIZE + MIN_DATA THEN HDR_SIZE + MIN_DATA ELSE n

heap_alloc_nomerge(h, size) ==
    IF size = 0 THEN [heap |-> h, ret |-> NULL]
    ELSE AllocScanNoMerge(h, 1, Need(size))

heap_alloc(h, size) ==
    IF size = 0 THEN [heap |-> h, ret |-> NULL]
    ELSE AllocScan(h, 1, Need(size))

\* The block whose payload starts at ptr (ptr was returned by heap_alloc and
\* its block was not merged away since).
BlockAt(h, ptr) == CHOOSE i \in 1 .. Len(h) : BlockAddr(h, i) + HDR_SIZE = ptr

heap_free_forget(h, ptr) ==
    IF ptr = NULL THEN h
    ELSE IF ptr - HDR_SIZE < 0 \/ ptr - HDR_SIZE >= HEAP_SIZE THEN h
    ELSE LET i == BlockAt(h, ptr)
         IN  NoCoalesce([h EXCEPT ![i].used = FALSE], i)

heap_free(h, ptr) ==
    IF ptr = NULL THEN h
    ELSE IF ptr - HDR_SIZE < 0 \/ ptr - HDR_SIZE >= HEAP_SIZE THEN h
    ELSE LET i == BlockAt(h, ptr)
         IN  Coalesce([h EXCEPT ![i].used = FALSE], i)

RECURSIVE SumSeq(_)
SumSeq(s) == IF s = <<>> THEN 0 ELSE Head(s) + SumSeq(Tail(s))

FreeBlocks(h) == { i \in 1 .. Len(h) : ~h[i].used }
UsedBlocks(h) == { i \in 1 .. Len(h) : h[i].used }

heap_free_total(h) ==
    SumSeq([i \in 1 .. Len(h) |-> IF h[i].used THEN 0 ELSE h[i].size - HDR_SIZE])

heap_used_total(h) ==
    SumSeq([i \in 1 .. Len(h) |-> IF h[i].used THEN h[i].size - HDR_SIZE ELSE 0])

heap_frag_count(h) == Cardinality(FreeBlocks(h))

\* Payload pointers of the blocks in use.
HeapLive(h) == { BlockAddr(h, i) + HDR_SIZE : i \in UsedBlocks(h) }

\* ------------------------------------------------------------------ pool

\* Blocks in the pool (config.h sets 256; the model runs a scaled pool).
POOL_NUM_BLOCKS == 3

\* Pool pointers are block numbers 1 .. POOL_NUM_BLOCKS; NULL is no block.
PoolBlocks == 1 .. POOL_NUM_BLOCKS

\* pool_init: every block on the list, the lowest first.
pool_init ==
    [list |-> 1,
     next |-> [b \in PoolBlocks |-> IF b = POOL_NUM_BLOCKS THEN NULL ELSE b + 1],
     free |-> POOL_NUM_BLOCKS,
     used |-> 0]

Pool == [list |-> free_list, next |-> pool_next, free |-> free_count, used |-> used_count]

\* pool_alloc: pop the head, then clear the block (its first word included).
pool_alloc(p) ==
    IF p.list = NULL THEN [pool |-> p, ret |-> NULL]
    ELSE LET block == p.list
         IN  [pool |-> [list |-> p.next[block],
                        next |-> [p.next EXCEPT ![block] = NULL],
                        free |-> p.free - 1,
                        used |-> p.used + 1],
              ret |-> block]

\* The free list from block b on, as the chain of first words gives it
\* (at most n blocks of it).
RECURSIVE Chain(_, _, _)
Chain(p, b, n) ==
    IF b = NULL \/ n = 0 THEN <<>> ELSE <<b>> \o Chain(p, p.next[b], n - 1)

FreeChain(p) == Chain(p, p.list, POOL_NUM_BLOCKS + 1)

\* pool_free that puts the block behind the last free one.
pool_free_tail(p, ptr) ==
    IF ptr = NULL THEN p
    ELSE IF ptr < 1 \/ ptr > POOL_NUM_BLOCKS THEN p
    ELSE LET c == FreeChain(p)
         IN  [list |-> IF c = <<>> THEN ptr ELSE p.list,
              next |-> IF c = <<>> THEN [p.next EXCEPT ![ptr] = NULL]
                       ELSE [p.next EXCEPT ![c[Len(c)]] = ptr, ![ptr] = NULL],
              free |-> p.free + 1,
              used |-> p.used - 1]

\* pool_free: push the block at the head.
pool_free(p, ptr) ==
    IF ptr = NULL THEN p
    ELSE IF ptr < 1 \/ ptr > POOL_NUM_BLOCKS THEN p
    ELSE [list |-> ptr,
          next |-> [p.next EXCEPT ![ptr] = p.list],
          free |-> p.free + 1,
          used |-> p.used - 1]

\* The allocators after heap_init and pool_init.
MemInit ==
    /\ heap = heap_init
    /\ heap_hist = [phase |-> "fresh", desc |-> TRUE, last |-> NULL, live |-> {}]
    /\ free_list = pool_init.list
    /\ pool_next = pool_init.next
    /\ free_count = pool_init.free
    /\ used_count = pool_init.used
    /\ pool_held = {}

\* ------------------------------------------------------------ observation

SatInc(n, cap) == IF n < cap THEN n + 1 ELSE cap

NoPass == [kind |-> "step", scheduled |-> FALSE]
NoOp == [op |-> "none"]

\* What a task-level step (no dispatcher pass) leaves in the observation.
ObsOp(o) ==
    /\ last_pass' = NoPass
    /\ last_woken' = {}
    /\ last_op' = o
    /\ created' = IF o.op = "task_create" /\ o.ret >= 0
                  THEN SatInc(created, MAX_TASKS) ELSE created
    /\ UNCHANGED <<skipped, watch>>

ObsStep == ObsOp(NoOp)

\* Observation of a dispatcher pass from kernel state k (before) to r (after).
ObsPass(kind, intr, before, r) ==
    LET after == r.k.state
        woken == { t \in Tasks : before[t] = "Blocked" /\ after[t] # "Blocked" }
        ticked == INUM_TIMER_FRC1 \in intr /\ kind # "exception"
    IN  /\ last_pass' = IF watch \in {"sem", "mq", "upload", "guard", "isr"} THEN NoPass
                        ELSE IF watch = "pass"
                        THEN [kind |-> kind, scheduled |-> r.scheduled, intr |-> intr]
                        ELSE [kind |-> kind, scheduled |-> r.scheduled]
        /\ last_op' = NoOp
        /\ UNCHANGED <<created, watch>>
        /\ skipped' = [t \in Tasks |->
               IF watch # "sched" \/ after[t] # "Ready" THEN 0
               ELSE IF r.scheduled THEN SatInc(skipped[t], MAX_TASKS)
               ELSE skipped[t]]
        /\ last_woken' = IF watch \notin {"sleep", "pass"} THEN {}
                         ELSE { [task |-> t, req |-> sleep_req[t],
                                 seen |-> SatInc(sleep_seen[t], TICK_MOD)] : t \in woken }
        /\ sleep_req' = [t \in Tasks |-> IF t \in woken THEN -1 ELSE sleep_req[t]]
        /\ sleep_deadline' = [t \in Tasks |-> IF t \in woken THEN 0 ELSE sleep_deadline[t]]
        /\ sleep_seen' = [t \in Tasks |->
               IF t \in woken \/ sleep_req[t] < 0 THEN 0
               ELSE IF ticked THEN SatInc(sleep_seen[t], TICK_MOD)
               ELSE sleep_seen[t]]

\* ----------------------------------------------------------------- actions

\* sched_init has run: idle in slot 0 is Ready, current and cursor point at it.
SchedInit(w) ==
    /\ watch = w
    /\ task_state = [i \in Tasks |-> IF i = IDLE_TASK_ID THEN "Ready" ELSE "Free"]
    /\ task_priority = [i \in Tasks |-> 0]
    /\ wake_tick = [i \in Tasks |-> 0]
    /\ current_task = IDLE_TASK_ID
    /\ last_scheduled = IDLE_TASK_ID
    /\ tick_count = 0
    /\ started = FALSE
    /\ pc = [i \in Tasks |-> IF i = IDLE_TASK_ID THEN "idle" ELSE "free"]
    /\ last_pass = NoPass
    /\ skipped = [i \in Tasks |-> 0]
    /\ sleep_req = [i \in Tasks |-> -1]
    /\ sleep_deadline = [i \in Tasks |-> 0]
    /\ sleep_seen = [i \in Tasks |-> 0]
    /\ last_woken = {}
    /\ last_op = NoOp
    /\ created = 0
    /\ SemInit(0, 0)
    /\ MqInit
    /\ TimerInit /\ FsBlank /\ MemInit

Init == SchedInit("sched")

\* Task-level code runs as current_task, between its kernel calls.
Running(t) == started /\ current_task = t /\ pc[t] = "run"

\* A dispatcher pass, whatever raised it.
Pass(kind, exccause, intr) ==
    LET r == os_exception_handler(K, exccause, intr)
    IN  /\ task_state' = r.k.state
        /\ wake_tick' = r.k.wake_tick
        /\ current_task' = r.k.current_task
        /\ last_scheduled' = r.k.last_scheduled
        /\ tick_count' = r.k.tick_count
        /\ ObsPass(kind, intr, task_state, r)
        /\ UNCHANGED <<task_priority, started>>

\* kernel_main or a running task calls task_create.
TaskCreateP(priorities) ==
    /\ ~started \/ (current_task # IDLE_TASK_ID /\ pc[current_task] = "run")
    /\ \E priority \in priorities :
         LET r == task_create(task_state, task_priority, priority)
         IN  /\ task_state' = r.state
             /\ task_priority' = r.priority
             /\ pc' = IF r.ret < 0 THEN pc ELSE [pc EXCEPT ![r.ret] = "run"]
             /\ ObsOp(IF watch = "create"
                      THEN [op |-> "task_create", priority |-> priority, ret |-> r.ret]
                      ELSE NoOp)
    /\ UNCHANGED <<wake_tick, current_task, last_scheduled, tick_count, started,
                   sleep_req, sleep_deadline, sleep_seen, semvars, mqvars, tmvars, fsvars, memvars>>

TaskCreate == TaskCreateP(0 .. MaxPriority)

\* sched_start: idle becomes Running and interrupts unmask.
SchedStart ==
    /\ ~started
    /\ started' = TRUE
    /\ current_task' = IDLE_TASK_ID
    /\ task_state' = [task_state EXCEPT ![IDLE_TASK_ID] = "Running"]
    /\ ObsStep
    /\ UNCHANGED <<task_priority, wake_tick, last_scheduled, tick_count, pc,
                   sleep_req, sleep_deadline, sleep_seen, semvars, mqvars, tmvars, fsvars, memvars>>

\* The FRC1 interrupt arrives between two task steps.
Tick ==
    /\ started
    /\ Pass("tick", EXCCAUSE_LEVEL1_INTERRUPT, {INUM_TIMER_FRC1})
    /\ UNCHANGED <<pc, semvars, mqvars, tmvars, fsvars, memvars>>

\* The software interrupt of task_yield is taken at once; the timer may be
\* pending in the same pass.
YieldPass ==
    \E timer \in BOOLEAN :
        Pass(IF timer THEN "tick" ELSE "yield", EXCCAUSE_LEVEL1_INTERRUPT,
             {INUM_SOFT} \cup (IF timer THEN {INUM_TIMER_FRC1} ELSE {}))

TaskYield ==
    /\ Running(current_task)
    /\ YieldPass
    /\ UNCHANGED <<pc, semvars, mqvars, tmvars, fsvars, memvars>>

TaskDelayP(delays) ==
    /\ Running(current_task)
    /\ \E ticks \in delays :
         LET r == task_delay_ticks(task_state, wake_tick, current_task, tick_count, ticks)
         IN  /\ task_state' = r.state
             /\ wake_tick' = r.wake_tick
             /\ sleep_req' = IF watch # "sleep" THEN sleep_req
                             ELSE [sleep_req EXCEPT ![current_task] = ticks]
             /\ sleep_deadline' = IF watch # "sleep" THEN sleep_deadline
                                  ELSE [sleep_deadline EXCEPT
                                          ![current_task] = AddTick(tick_count, ticks)]
             /\ sleep_seen' = [sleep_seen EXCEPT ![current_task] = 0]
    /\ pc' = [pc EXCEPT ![current_task] = "delay_yield"]
    /\ ObsStep
    /\ UNCHANGED <<task_priority, current_task, last_scheduled, tick_count, started,
                   semvars, mqvars, tmvars, fsvars, memvars>>

\* The sleep lengths tried: none, one tick, the longest below 2^(w-1), 2^(w-1)
\* itself and the largest value of the counter.
DelayTicks == {0, 1, TICK_HALF - 1, TICK_HALF, TICK_MOD - 1}

TaskDelay == TaskDelayP(DelayTicks)

\* The task_yield() that ends task_delay_ticks.
DelayYield ==
    /\ started
    /\ pc[current_task] = "delay_yield"
    /\ pc' = [pc EXCEPT ![current_task] = "run"]
    /\ YieldPass
    /\ UNCHANGED <<semvars, mqvars, tmvars, fsvars, memvars>>

\* The task function returns into _task_exit_handler, which spins for ever.
TaskExit ==
    /\ Running(current_task)
    /\ task_state' = task_exit(task_state, current_task)
    /\ pc' = [pc EXCEPT ![current_task] = "dead"]
    /\ ObsStep
    /\ UNCHANGED <<task_priority, wake_tick, current_task, last_scheduled,
                   tick_count, started, sleep_req, sleep_deadline, sleep_seen,
                   semvars, mqvars, tmvars, fsvars, memvars>>

vars == <<kvars, obsvars, semvars, mqvars, tmvars, fsvars, memvars>>

\* kernel_main as main.cpp runs it: sched_init, n tasks of priority 1, sched_start.
RECURSIVE BootCreate(_, _, _)
BootCreate(n, st, prio) ==
    IF n = 0 THEN [state |-> st, priority |-> prio]
    ELSE LET r == task_create(st, prio, 1)
         IN  BootCreate(n - 1, r.state, r.priority)

Booted(n, w) ==
    LET b == BootCreate(n, [i \in Tasks |-> IF i = IDLE_TASK_ID THEN "Ready" ELSE "Free"],
                        [i \in Tasks |-> 0])
    IN  /\ watch = w
        /\ task_state = [b.state EXCEPT ![IDLE_TASK_ID] = "Running"]
        /\ task_priority = b.priority
        /\ wake_tick = [i \in Tasks |-> 0]
        /\ current_task = IDLE_TASK_ID
        /\ last_scheduled = IDLE_TASK_ID
        /\ tick_count = 0
        /\ started = TRUE
        /\ pc = [i \in Tasks |-> IF i = IDLE_TASK_ID THEN "idle"
                                 ELSE IF b.state[i] = "Free" THEN "free" ELSE "run"]
        /\ last_pass = NoPass
        /\ skipped = [i \in Tasks |-> 0]
        /\ sleep_req = [i \in Tasks |-> -1]
        /\ sleep_deadline = [i \in Tasks |-> 0]
        /\ sleep_seen = [i \in Tasks |-> 0]
        /\ last_woken = {}
        /\ last_op = NoOp
        /\ created = 0

\* ------------------------------------------------------ semaphore actions

\* Largest count the counting semaphore is initialised with or posted up to.
MaxSemCount == 1

\* The semaphore a blocking call waits on, and where the caller goes on after it.
SemOf(c) ==
    CASE c = "sem_wait" -> "sem"
      [] c = "mutex_lock" -> "mutex"
      [] c = "mq_send" -> "not_full"
      [] c = "mq_recv" -> "not_empty"

AfterWait(c) ==
    CASE c = "sem_wait" -> "run"
      [] c = "mutex_lock" -> "run"
      [] c = "mq_send" -> "send_copy"
      [] c = "mq_recv" -> "recv_copy"

Without(seq, t) == SelectSeq(seq, LAMBDA x : x # t)

\* A unit of semaphore s has been acquired by task t (observation, and the
\* mutex's critical section).
Acquired(s, t) ==
    /\ sem_net' = [sem_net EXCEPT ![s] = @ + 1]
    /\ holds' = IF s = "mutex" THEN [holds EXCEPT ![t] = TRUE] ELSE holds

\* sem_wait up to its irq_restore, called as c (sem_wait, mutex_lock, or the
\* gate of mq_send / mq_recv).
BlockingWait(c) ==
    LET s == SemOf(c)
        cur == current_task
        r == sem_wait(sem_count[s], sem_waiters[s], task_state, cur)
    IN  /\ sem_count' = [sem_count EXCEPT ![s] = r.count]
        /\ sem_waiters' = [sem_waiters EXCEPT ![s] = r.waiters]
        /\ task_state' = r.state
        /\ IF r.took
           THEN /\ Acquired(s, cur)
                /\ pc' = [pc EXCEPT ![cur] = AfterWait(c)]
                /\ UNCHANGED <<call, block_order>>
           ELSE /\ pc' = [pc EXCEPT ![cur] = "wait_yield"]
                /\ call' = [call EXCEPT ![cur] = c]
                /\ block_order' = [block_order EXCEPT ![s] = Append(@, cur)]
                /\ UNCHANGED <<sem_net, holds>>
        /\ ObsOp(IF watch = "mq" THEN [op |-> "wait", call |-> c, took |-> r.took]
                  ELSE NoOp)
        /\ UNCHANGED <<task_priority, wake_tick, current_task, last_scheduled,
                       tick_count, started, sleep_req, sleep_deadline, sleep_seen,
                       sem_n, handed>>

\* The task_yield() that ends the blocking path of sem_wait.
WaitYield ==
    /\ started
    /\ pc[current_task] = "wait_yield"
    /\ pc' = [pc EXCEPT ![current_task] = "wait_resume"]
    /\ YieldPass
    /\ UNCHANGED <<semvars, mqvars, tmvars, fsvars, memvars>>

\* The task is running again after that yield: sem_wait returns.
WaitReturn ==
    LET cur == current_task
        c == call[cur]
    IN  /\ started
        /\ pc[cur] = "wait_resume"
        /\ Acquired(SemOf(c), cur)
        /\ handed' = [handed EXCEPT ![cur] = FALSE]
        /\ call' = [call EXCEPT ![cur] = "none"]
        /\ pc' = [pc EXCEPT ![cur] = AfterWait(c)]
        /\ ObsStep
        /\ UNCHANGED <<task_state, task_priority, wake_tick, current_task,
                       last_scheduled, tick_count, started, sleep_req, sleep_deadline,
                       sleep_seen, sem_count, sem_waiters, sem_n, block_order,
                       mqvars, tmvars, fsvars, memvars>>

\* sem_trywait on s; next is where the caller goes on when it got the unit.
TryWait(s, next) ==
    LET cur == current_task
        r == sem_trywait(sem_count[s])
    IN  /\ sem_count' = [sem_count EXCEPT ![s] = r.count]
        /\ IF r.ret = 0
           THEN Acquired(s, cur) /\ pc' = [pc EXCEPT ![cur] = next]
           ELSE UNCHANGED <<sem_net, holds, pc>>
        /\ ObsOp(IF watch = "mq"
                  THEN [op |-> "trywait", sem |-> s, ret |-> r.ret,
                        before |-> IF r.ret = 0 THEN <<>>
                                   ELSE <<mq_head, mq_tail, sem_count, sem_waiters>>]
                  ELSE NoOp)
        /\ UNCHANGED <<task_state, task_priority, wake_tick, current_task,
                       last_scheduled, tick_count, started, sleep_req, sleep_deadline,
                       sleep_seen, sem_waiters, sem_n, call, handed, block_order>>

\* sem_post on s by the current task; next is where the caller goes on.
Post(s, next) ==
    LET cur == current_task
        r == sem_post(sem_count[s], sem_waiters[s], task_state)
    IN  /\ sem_count' = [sem_count EXCEPT ![s] = r.count]
        /\ sem_waiters' = [sem_waiters EXCEPT ![s] = r.waiters]
        /\ task_state' = r.state
        /\ sem_net' = [sem_net EXCEPT ![s] = @ - 1]
        /\ holds' = IF s = "mutex" THEN [holds EXCEPT ![cur] = FALSE] ELSE holds
        /\ handed' = IF r.woke >= 0 THEN [handed EXCEPT ![r.woke] = TRUE] ELSE handed
        /\ block_order' = [block_order EXCEPT ![s] = Without(@, r.woke)]
        /\ pc' = [pc EXCEPT ![cur] = next]
        /\ ObsOp([op |-> "post", sem |-> s,
                  expected |-> IF block_order[s] = <<>> THEN -1 ELSE Head(block_order[s]),
                  nwait |-> Len(block_order[s]),
                  woke |-> r.woke,
                  dcount |-> r.count - sem_count[s],
                  readied |-> { t \in Tasks : task_state[t] # "Ready" /\ r.state[t] = "Ready" }])
        /\ UNCHANGED <<task_priority, wake_tick, current_task, last_scheduled,
                       tick_count, started, sleep_req, sleep_deadline, sleep_seen,
                       sem_n, call>>

SemWait ==
    /\ Running(current_task)
    /\ BlockingWait("sem_wait")
    /\ UNCHANGED <<mqvars, tmvars, fsvars, memvars>>

SemTryWait ==
    /\ Running(current_task)
    /\ TryWait("sem", "run")
    /\ UNCHANGED <<mqvars, tmvars, fsvars, memvars>>

\* The model posts the counting semaphore up to MaxSemCount.
SemPost ==
    /\ Running(current_task)
    /\ sem_count["sem"] < MaxSemCount
    /\ Post("sem", "run")
    /\ UNCHANGED <<mqvars, tmvars, fsvars, memvars>>

\* Mutex discipline: no recursive lock, unlock by the holder only.
MutexLock ==
    /\ Running(current_task)
    /\ ~holds[current_task]
    /\ BlockingWait("mutex_lock")
    /\ UNCHANGED <<mqvars, tmvars, fsvars, memvars>>

MutexTryLock ==
    /\ Running(current_task)
    /\ ~holds[current_task]
    /\ TryWait("mutex", "run")
    /\ UNCHANGED <<mqvars, tmvars, fsvars, memvars>>

MutexUnlock ==
    /\ Running(current_task)
    /\ holds[current_task]
    /\ Post("mutex", "run")
    /\ UNCHANGED <<mqvars, tmvars, fsvars, memvars>>

\* -------------------------------------------------- message queue actions

\* Observation kept with every queue step that is not a copy.
QueueObs == UNCHANGED <<mq_head, mq_tail, mq_buf, copied_in, copied_out, slot_live>>

\* mq_send up to the return of the guarded section of sem_wait(&q->not_full).
MqSend ==
    /\ Running(current_task)
    /\ next_msg < MaxMsgs
    /\ next_msg' = next_msg + 1
    /\ msg' = [msg EXCEPT ![current_task] = next_msg + 1]
    /\ BlockingWait("mq_send")
    /\ QueueObs
    /\ UNCHANGED <<tmvars, fsvars, memvars>>

\* mq_trysend up to the return of sem_trywait(&q->not_full); -1 leaves the
\* message unsent.
MqTrySend ==
    /\ Running(current_task)
    /\ next_msg < MaxMsgs
    /\ TryWait("not_full", "send_copy")
    /\ IF sem_trywait(sem_count["not_full"]).ret = 0
       THEN /\ next_msg' = next_msg + 1
            /\ msg' = [msg EXCEPT ![current_task] = next_msg + 1]
       ELSE UNCHANGED <<next_msg, msg>>
    /\ QueueObs
    /\ UNCHANGED <<tmvars, fsvars, memvars>>

\* The guarded copy into buf[head].
MqSendCopy ==
    LET cur == current_task
        r == mq_put(mq_buf, mq_head, msg[cur])
    IN  /\ started
        /\ pc[cur] = "send_copy"
        /\ mq_buf' = r.buf
        /\ mq_head' = r.head
        /\ msg' = [msg EXCEPT ![cur] = 0]
        /\ copied_in' = Append(copied_in, msg[cur])
        /\ slot_live' = [slot_live EXCEPT ![mq_head] = TRUE]
        /\ pc' = [pc EXCEPT ![cur] = "send_post"]
        /\ ObsOp([op |-> "copy_in", overwrote |-> slot_live[mq_head]])
        /\ UNCHANGED <<task_state, task_priority, wake_tick, current_task,
                       last_scheduled, tick_count, started, sleep_req, sleep_deadline,
                       sleep_seen, semvars, mq_tail, next_msg, copied_out, tmvars, fsvars, memvars>>

\* sem_post(&q->not_empty), then the send returns.
MqSendPost ==
    /\ started
    /\ pc[current_task] = "send_post"
    /\ Post("not_empty", "run")
    /\ UNCHANGED <<mqvars, tmvars, fsvars, memvars>>

\* mq_recv up to the return of the guarded section of sem_wait(&q->not_empty).
MqRecv ==
    /\ Running(current_task)
    /\ BlockingWait("mq_recv")
    /\ UNCHANGED <<mqvars, tmvars, fsvars, memvars>>

MqTryRecv ==
    /\ Running(current_task)
    /\ TryWait("not_empty", "recv_copy")
    /\ UNCHANGED <<mqvars, tmvars, fsvars, memvars>>

\* The guarded copy out of buf[tail].
MqRecvCopy ==
    LET cur == current_task
        r == mq_get(mq_buf, mq_tail)
    IN  /\ started
        /\ pc[cur] = "recv_copy"
        /\ mq_tail' = r.tail
        /\ copied_out' = Append(copied_out, r.msg)
        /\ slot_live' = [slot_live EXCEPT ![mq_tail] = FALSE]
        /\ pc' = [pc EXCEPT ![cur] = "recv_post"]
        /\ ObsOp([op |-> "copy_out", was_live |-> slot_live[mq_tail]])
        /\ UNCHANGED <<task_state, task_priority, wake_tick, current_task,
                       last_scheduled, tick_count, started, sleep_req, sleep_deadline,
                       sleep_seen, semvars, mq_head, mq_buf, msg, next_msg, copied_in,
                       tmvars, fsvars, memvars>>

\* sem_post(&q->not_full), then the receive returns.
MqRecvPost ==
    /\ started
    /\ pc[current_task] = "recv_post"
    /\ Post("not_full", "run")
    /\ UNCHANGED <<mqvars, tmvars, fsvars, memvars>>

\* ------------------------------------------------ interrupt-context actions

\* What a call made in interrupt context leaves of the kernel: no dispatcher
\* pass, no task-level position, nothing but what the call itself writes.
IsrFrame ==
    UNCHANGED <<task_priority, wake_tick, current_task, last_scheduled, tick_count,
                started, pc, sleep_req, sleep_deadline, sleep_seen, sem_n, call, holds,
                tmvars, fsvars, memvars>>

\* sem_post(&s) called by a callback in interrupt context, between two steps
\* of whatever task was running.
IsrSemPost ==
    LET s == "sem"
        r == sem_post(sem_count[s], sem_waiters[s], task_state)
    IN  /\ started
        /\ sem_count[s] < MaxSemCount
        /\ sem_count' = [sem_count EXCEPT ![s] = r.count]
        /\ sem_waiters' = [sem_waiters EXCEPT ![s] = r.waiters]
        /\ task_state' = r.state
        /\ sem_net' = [sem_net EXCEPT ![s] = @ - 1]
        /\ handed' = IF r.woke >= 0 THEN [handed EXCEPT ![r.woke] = TRUE] ELSE handed
        /\ block_order' = [block_order EXCEPT ![s] = Without(@, r.woke)]
        /\ ObsOp([op |-> "isr_post", sem |-> s,
                  expected |-> IF block_order[s] = <<>> THEN -1 ELSE Head(block_order[s]),
                  woke |-> r.woke, dcount |-> r.count - sem_count[s]])
        /\ QueueObs
        /\ UNCHANGED <<msg, next_msg>>
        /\ IsrFrame

\* mq_trysend(&q, &m) called by a callback in interrupt context: the whole
\* call runs with interrupts masked.
IsrMqTrySend ==
    LET w == sem_trywait(sem_count["not_full"])
        p == mq_put(mq_buf, mq_head, next_msg + 1)
        r == sem_post(sem_count["not_empty"], sem_waiters["not_empty"], task_state)
    IN  /\ started
        /\ next_msg < MaxMsgs
        /\ IF w.ret < 0
           THEN /\ UNCHANGED <<semvars, mqvars, task_state>>
                /\ ObsOp([op |-> "isr_trysend", ret |-> -1, overwrote |-> FALSE,
                          woke |-> -1])
           ELSE /\ sem_count' = [sem_count EXCEPT !["not_full"] = w.count,
                                                  !["not_empty"] = r.count]
                /\ sem_waiters' = [sem_waiters EXCEPT !["not_empty"] = r.waiters]
                /\ task_state' = r.state
                /\ sem_net' = [sem_net EXCEPT !["not_full"] = @ + 1,
                                              !["not_empty"] = @ - 1]
                /\ handed' = IF r.woke >= 0 THEN [handed EXCEPT ![r.woke] = TRUE]
                             ELSE handed
                /\ block_order' = [block_order EXCEPT !["not_empty"] = Without(@, r.woke)]
                /\ mq_buf' = p.buf
                /\ mq_head' = p.head
                /\ next_msg' = next_msg + 1
                /\ copied_in' = Append(copied_in, next_msg + 1)
                /\ slot_live' = [slot_live EXCEPT ![mq_head] = TRUE]
                /\ ObsOp([op |-> "isr_trysend", ret |-> 0,
                          overwrote |-> slot_live[mq_head], woke |-> r.woke])
                /\ UNCHANGED <<mq_tail, msg, copied_out>>
        /\ IsrFrame

\* ------------------------------------------------ software timer actions

\* Tick arguments a task passes to swtimer_start.
MaxInterval == 1
TimerTicks == 0 .. MaxInterval

\* What every timer call leaves alone.
TimerFrame ==
    /\ ObsStep
    /\ UNCHANGED <<kvars, sleep_req, sleep_deadline, sleep_seen, semvars, mqvars, fsvars, memvars>>

\* cmd_timer's first line: swtimer_init on a timer object, registered or not.
SwtimerInitP(ids) ==
    \E t \in ids :
        /\ Running(current_task)
        /\ timers' = swtimer_init(timers, t)
        /\ UNCHANGED timer_list
        /\ TimerFrame

SwtimerInit == SwtimerInitP(TimerIds)

SwtimerStartP(ids, tickset, modes) ==
    \E t \in ids, ticks \in tickset, mode \in modes :
        LET r == swtimer_start(timers, timer_list, t, tick_count, ticks, mode)
        IN  /\ Running(current_task)
            /\ timers' = r.timers
            /\ timer_list' = r.list
            /\ TimerFrame

SwtimerStart == SwtimerStartP(TimerIds, TimerTicks, {SWTIMER_ONESHOT, SWTIMER_PERIODIC})

SwtimerStopP(ids) ==
    \E t \in ids :
        LET r == swtimer_stop(timers, timer_list, t)
        IN  /\ Running(current_task)
            /\ timers' = r.timers
            /\ timer_list' = r.list
            /\ TimerFrame

SwtimerStop == SwtimerStopP(TimerIds)

\* swtimer_tick() invoked as timer_sw.h declares it, interrupts masked; the
\* callback is the repository's demo_timer_cb, which touches no kernel state.
SwtimerTick ==
    LET r == swtimer_tick(timers, timer_list, tick_count)
    IN  /\ started
        /\ timers' = r.timers
        /\ timer_list' = r.list
        /\ ObsOp([op |-> "swtimer_tick", calls |-> r.calls])
        /\ UNCHANGED <<kvars, sleep_req, sleep_deadline, sleep_seen, semvars, mqvars,
                       fsvars, memvars>>

\* The tick pass as timer_sw.cpp documents it: the FRC1 branch of the
\* dispatcher with swtimer_tick() run once after tick_count++ and before
\* schedule().  (os_exception_handler as written has no such call; this action
\* is the hypothesis "swtimer_tick runs once per tick".)
ServicedTick ==
    LET r == os_exception_handler(K, EXCCAUSE_LEVEL1_INTERRUPT, {INUM_TIMER_FRC1})
        t == swtimer_tick(timers, timer_list, r.k.tick_count)
    IN  /\ started
        /\ task_state' = r.k.state
        /\ wake_tick' = r.k.wake_tick
        /\ current_task' = r.k.current_task
        /\ last_scheduled' = r.k.last_scheduled
        /\ tick_count' = r.k.tick_count
        /\ timers' = t.timers
        /\ timer_list' = t.list
        /\ last_pass' = [kind |-> "tick", scheduled |-> r.scheduled]
        /\ last_op' = [op |-> "swtimer_tick", calls |-> t.calls]
        /\ UNCHANGED <<task_priority, started, pc, skipped, sleep_req, sleep_deadline,
                       sleep_seen, last_woken, created, watch, semvars, mqvars, fsvars,
                       memvars>>

\* swtimer_tick() with callbacks that call swtimer_start and swtimer_stop.
CallbackTick ==
    \E cb \in [TimerIds -> CallbackActs] :
        LET r == swtimer_tick_cb(1, timers, timer_list, tick_count, <<>>, cb)
        IN  /\ started
            /\ timers' = r.timers
            /\ timer_list' = r.list
            /\ ObsOp([op |-> "callback_tick", calls |-> r.calls, cb |-> cb])
            /\ UNCHANGED <<kvars, sleep_req, sleep_deadline, sleep_seen, semvars, mqvars,
                           fsvars, memvars>>

\* Timer calls of a task that owns SWTIMER_MAX + 1 timer objects.
RegistryStart == SwtimerStartP(RegistryTimers, {1}, {SWTIMER_ONESHOT, SWTIMER_PERIODIC})

RegistryStop == SwtimerStopP(RegistryTimers)

\* Tick passes of the registry runs, up to RegistryTicks of them.
RegistryTicks == 3

RegistryTick == tick_count < RegistryTicks /\ Tick

\* The timer under observation and the periods it is started with.
PERIODIC_TIMER == 1
Periods == {1, 2, TICK_HALF, TICK_MOD - 1}

\* swtimer_start(&t, p, SWTIMER_PERIODIC) on the observed timer, once.
PeriodicStart ==
    /\ timers[PERIODIC_TIMER].active = 0
    /\ SwtimerStartP({PERIODIC_TIMER}, Periods, {SWTIMER_PERIODIC})

OtherTimers == TimerIds \ {PERIODIC_TIMER}

OtherInit == SwtimerInitP(OtherTimers)

OtherStart == SwtimerStartP(OtherTimers, TimerTicks, {SWTIMER_ONESHOT, SWTIMER_PERIODIC})

OtherStop == SwtimerStopP(OtherTimers)

\* ------------------------------------------------------ filesystem actions

\* File names the shell passes: one byte, the longest that fits an entry, and
\* one byte more than fits.
LongName == [i \in 1 .. FS_NAME_LEN |-> 96 + i]
FsNames == {<<97>>, SubSeq(LongName, 1, FS_NAME_LEN - 1), LongName}

\* Sizes the shell passes: within a sector, into the next sector, and the
\* largest uint32_t.
FsSizes == {1, FS_SECTOR_SIZE + 1, SIZE_MOD - 1}

\* Marks of the data buffers: one for fs_create and fs_overwrite, one for
\* fs_append.
TAG_CREATE == 1
TAG_OVERWRITE == 1
TAG_APPEND == 2

\* A filesystem call taken as one step of the running task: the new flash and
\* buffer contents, and the call with its arguments and result (recorded for
\* the call the specification watches).
FsStep(f, o) ==
    /\ Running(current_task)
    /\ mounted' = f.mounted
    /\ fs_table' = f.table
    /\ fs_data' = f.data
    /\ fs_file_count' = f.count
    /\ sec_buf' = f.buf
    /\ ObsOp(IF watch = o.op THEN o ELSE NoOp)
    /\ UNCHANGED <<kvars, sleep_req, sleep_deadline, sleep_seen, semvars, mqvars, tmvars, memvars,
                   fs_call, uart_rx, uart_tx>>

FsCreateP(names, sizes) ==
    \E name \in names, size \in sizes :
        LET r == fs_create(FS, name, TAG_CREATE, size)
        IN  FsStep(r.f, [op |-> "fs_create", name |-> name, size |-> size,
                         tag |-> TAG_CREATE, ret |-> r.ret, why |-> r.why])

FsCreate == FsCreateP(FsNames, FsSizes)

FsOverwrite ==
    \E name \in FsNames, size \in FsSizes :
        LET r == fs_overwrite(FS, name, TAG_OVERWRITE, size)
        IN  FsStep(r.f, [op |-> "fs_overwrite", name |-> name, size |-> size,
                         tag |-> TAG_OVERWRITE, ret |-> r.ret, why |-> r.why])

FsAppend ==
    \E name \in FsNames, size \in FsSizes :
        LET r == fs_append(FS, name, TAG_APPEND, size)
        IN  FsStep(r.f, [op |-> "fs_append", name |-> name, size |-> size,
                         tag |-> TAG_APPEND, ret |-> r.ret, why |-> r.why])

FsDeleteP(names) ==
    \E name \in names :
        LET r == fs_delete(FS, name)
        IN  FsStep(r.f, [op |-> "fs_delete", name |-> name, ret |-> r.ret, why |-> r.why])

FsDelete == FsDeleteP(FsNames)

FsRename ==
    \E old_name \in FsNames, new_name \in FsNames :
        LET r == fs_rename(FS, old_name, new_name)
        IN  FsStep(r.f, [op |-> "fs_rename", name |-> old_name, new_name |-> new_name,
                         ret |-> r.ret, why |-> r.why])

\* Buffer sizes passed to fs_read, and whether the buffer is 4-byte aligned.
ReadMax == {0, 1, FS_SECTOR_SIZE, FS_SECTOR_SIZE + 1}
ReadNames == {<<97>>, SubSeq(LongName, 1, FS_NAME_LEN - 1)}

\* The caller's memory before the call: max_size bytes of buffer and the
\* flash word's worth of bytes behind it, none of them written yet.
ReadMem(max_size) == [j \in 1 .. (max_size + WordBytes) |-> <<>>]

FsRead ==
    \E name \in ReadNames, max_size \in ReadMax, aligned \in BOOLEAN :
        LET r == fs_read_buf(FS, name, ReadMem(max_size), max_size, aligned)
        IN  FsStep(r.f, [op |-> "fs_read", name |-> name, max_size |-> max_size,
                         aligned |-> aligned, ret |-> r.ret, mem |-> r.mem])

ReadCreate == FsCreateP({<<97>>}, {1, FS_SECTOR_SIZE, FS_SECTOR_SIZE + 1})

\* A name the shell can pass whose first byte is 0xFF, the erased-flash mark.
ErasedName == <<ERASED>>
CountNames == {<<97>>, ErasedName}

CountCreate == FsCreateP(CountNames, {1, FS_SECTOR_SIZE + 1})

CountDelete == FsDeleteP(CountNames)

\* ------------------------------------------------------ upload actions

\* Ticks without a byte after which fs_upload gives up (code: 10 * TICK_HZ).
UPLOAD_TIMEOUT == 2
\* Bytes the receive ring holds (code: 64).
RxCap == 1
HostBytes == {49, ERASED}
UploadNames == {<<97>>, LongName}
UploadTotals == {1, FS_SECTOR_SIZE + 1, SIZE_MOD - 1}

NoCall == [op |-> "none"]
Uploading == fs_call[current_task].op = "fs_upload"

\* One step of fs_upload by the running task: filesystem state f, serial
\* output out, call record c.
UploadStep(f, out, c, o) ==
    /\ mounted' = f.mounted
    /\ fs_table' = f.table
    /\ fs_data' = f.data
    /\ fs_file_count' = f.count
    /\ sec_buf' = f.buf
    /\ uart_tx' = out
    /\ fs_call' = [fs_call EXCEPT ![current_task] = c]
    /\ ObsOp(o)
    /\ UNCHANGED <<kvars, sleep_req, sleep_deadline, sleep_seen, semvars, mqvars, tmvars, memvars>>

\* The call as it returns: what it was asked, what it reserved and received.
UploadDone(c, ret, why) ==
    [op |-> "fs_upload", name |-> c.name, total |-> c.total, start |-> c.start,
     nsec |-> c.nsec, payload |-> c.payload, ret |-> ret, why |-> why]

\* fs_upload from its entry to uart_puts("READY\n"), or to its early return.
UploadBeginP(names, totals) ==
    /\ Running(current_task)
    /\ ~Uploading
    /\ \E name \in names, total \in totals :
         LET r == fs_upload_begin(FS, name, total)
         IN  IF r.ret < 0
             THEN UploadStep(r.f, IF r.why = "noslot" THEN <<"fs: file table full\n">>
                                  ELSE IF r.why = "nospace" THEN <<"fs: no space\n">>
                                  ELSE <<>>,
                             NoCall,
                             [op |-> "fs_upload", name |-> name, total |-> total,
                              start |-> 0, nsec |-> 0, payload |-> <<>>,
                              ret |-> -1, why |-> r.why])
             ELSE UploadStep(r.f, <<"READY\n">>,
                             [op |-> "fs_upload", at |-> "for", name |-> name,
                              total |-> total, start |-> r.start, nsec |-> r.nsec,
                              sec |-> 0, chunk |-> 0, got |-> <<>>, rx |-> <<>>,
                              received |-> 0,
                              crc |-> CRC_INIT, timeout_start |-> 0,
                              payload |-> <<>>],
                             NoOp)
    /\ UNCHANGED uart_rx

UploadBegin == UploadBeginP(UploadNames, UploadTotals)

\* sec_buf[0 .. got-1] as the uploading task finds it: the bytes it stored
\* (c.got), unless another filesystem call loaded the buffer since; then the
\* table or superblock image that call left.
SecBufHeld(c) ==
    IF sec_buf = "rx" THEN c.got
    ELSE [j \in 1 .. Len(c.got) |->
             IF sec_buf = "table" THEN TableImage(fs_table, j)
             ELSE IF sec_buf = "super" THEN SuperImage(fs_file_count, j)
             ELSE c.got[j]]

\* The head of the sector loop; after the last sector the OK line and return.
UploadFor ==
    /\ Running(current_task)
    /\ Uploading
    /\ LET c == fs_call[current_task]
           left == (c.total - c.received + SIZE_MOD) % SIZE_MOD
       IN  /\ c.at = "for"
           /\ IF c.sec < c.nsec
              THEN UploadStep(FS, uart_tx,
                       [c EXCEPT !.at = "recv",
                                 !.chunk = IF left > FS_SECTOR_SIZE THEN FS_SECTOR_SIZE
                                           ELSE left,
                                 !.got = <<>>,
                                 !.rx = <<>>,
                                 !.timeout_start = tick_count],
                       NoOp)
              ELSE UploadStep(FS, uart_tx \o <<"\nOK ">> \o uart_put_hex(c.crc) \o <<"\n">>,
                       NoCall, UploadDone(c, c.crc, "ok"))
    /\ UNCHANGED uart_rx

\* uart_getc() returned a byte: into sec_buf[got++], timeout restarted.  c.rx
\* is what the host sent for this sector, c.got what sec_buf[0 .. got-1] holds.
UploadRecv ==
    /\ Running(current_task)
    /\ Uploading
    /\ uart_rx # <<>>
    /\ LET c == fs_call[current_task]
           got == Append(SecBufHeld(c), Head(uart_rx))
       IN  /\ c.at = "recv"
           /\ UploadStep([FS EXCEPT !.buf = "rx"], uart_tx,
                  [c EXCEPT !.got = got,
                            !.rx = Append(c.rx, Head(uart_rx)),
                            !.timeout_start = tick_count,
                            !.at = IF Len(got) < c.chunk THEN "recv" ELSE "write"],
                  NoOp)
    /\ uart_rx' = Tail(uart_rx)

\* uart_getc() returned -1: task_yield().
UploadYield ==
    /\ Running(current_task)
    /\ Uploading
    /\ uart_rx = <<>>
    /\ fs_call[current_task].at = "recv"
    /\ fs_call' = [fs_call EXCEPT ![current_task].at = "check"]
    /\ YieldPass
    /\ UNCHANGED <<pc, semvars, mqvars, tmvars, memvars, mounted, fs_table, fs_data,
                   fs_file_count, sec_buf, uart_rx, uart_tx>>

\* Back from the yield: the timeout test, and on timeout fs_delete(name),
\* "ERR timeout" and return -1.
UploadCheck ==
    /\ Running(current_task)
    /\ Uploading
    /\ LET c == fs_call[current_task]
       IN  /\ c.at = "check"
           /\ IF TickDiff(tick_count, c.timeout_start) > UPLOAD_TIMEOUT
              THEN UploadStep(fs_delete(FS, c.name).f, uart_tx \o <<"ERR timeout\n">>,
                       NoCall, UploadDone(c, -1, "timeout"))
              ELSE UploadStep(FS, uart_tx, [c EXCEPT !.at = "recv"], NoOp)
    /\ UNCHANGED uart_rx

\* The sector is complete: CRC over the bytes received, pad, erase and write.
UploadWrite ==
    /\ Running(current_task)
    /\ Uploading
    /\ LET c == fs_call[current_task]
           held == SecBufHeld(c)
       IN  /\ c.at = "write"
           /\ UploadStep([FS EXCEPT !.data = PutSector(fs_data, c.start + c.sec,
                                                       PaddedSector(held)),
                                    !.buf = "data"],
                  uart_tx,
                  [c EXCEPT !.at = "ack",
                            !.got = held,
                            !.crc = crc_over(c.crc, held, 1),
                            !.received = (c.received + Len(held)) % SIZE_MOD,
                            !.payload = c.payload \o held],
                  NoOp)
    /\ UNCHANGED uart_rx

\* uart_putc('#') and the loop's sec++.
UploadAck ==
    /\ Running(current_task)
    /\ Uploading
    /\ LET c == fs_call[current_task]
       IN  /\ c.at = "ack"
           /\ UploadStep(FS, uart_tx \o <<"#">>,
                  [c EXCEPT !.at = "for", !.sec = c.sec + 1], NoOp)
    /\ UNCHANGED uart_rx

\* The host sends the next byte while the device waits for one.
HostSend ==
    /\ Uploading
    /\ fs_call[current_task].at \in {"recv", "check"}
    /\ Len(uart_rx) < RxCap
    /\ \E b \in HostBytes : uart_rx' = Append(uart_rx, b)
    /\ ObsStep
    /\ UNCHANGED <<kvars, sleep_req, sleep_deadline, sleep_seen, semvars, mqvars, tmvars, memvars,
                   mounted, fs_table, fs_data, fs_file_count, sec_buf, fs_call, uart_tx>>

\* Tick passes of the upload runs, up to tick UploadTicks.
UploadTicks == 4

\* Time passes while an upload is under way.
UploadTick == Uploading /\ tick_count < UploadTicks /\ Tick

\* The yield of the single uploading task, the timer pending in the same
\* pass only up to tick UploadTicks.
TimedYield == UploadYield /\ (tick_count' = tick_count \/ tick_count < UploadTicks)

\* ------------------------------------------------ unguarded operations

\* fs_read, fs_stat and fs_free call read_table() and then work on sec_buf
\* without irq_save(): an interrupt can be taken between the two.
UnguardedOps == {"fs_read", "fs_stat", "fs_free"}
GuardNames == {<<97>>}
GuardSizes == {1}
FsCallFree == fs_call[current_task].op = "none"

\* What the function computes from sec_buf.  When sec_buf holds the superblock
\* image left by write_super() instead of the table, entry 0 of it starts with
\* the magic and every other entry with 0xFF: no name is found, and the only
\* entry has a run outside the data area.
UnguardedResult(op, name) ==
    IF sec_buf = "table"
    THEN IF op = "fs_stat" THEN fs_stat(FS, name).ret
         ELSE IF op = "fs_read" THEN fs_read(FS, name, SIZE_MOD - 1).ret
         ELSE fs_free(FS).ret
    ELSE IF op = "fs_free" THEN FS_DATA_SECTORS * FS_SECTOR_SIZE
         ELSE -1

\* The function's read_table().
FsLoadTable ==
    /\ Running(current_task)
    /\ FsCallFree
    /\ mounted
    /\ \E op \in UnguardedOps, name \in GuardNames :
         fs_call' = [fs_call EXCEPT ![current_task] =
                        [op |-> op, at |-> "loaded", name |-> name]]
    /\ sec_buf' = "table"
    /\ ObsStep
    /\ UNCHANGED <<kvars, sleep_req, sleep_deadline, sleep_seen, semvars, mqvars, tmvars, memvars,
                   mounted, fs_table, fs_data, fs_file_count, uart_rx, uart_tx>>

\* The rest of the function: find_file or build_bitmap on sec_buf, and return.
FsUseTable ==
    /\ Running(current_task)
    /\ fs_call[current_task].op \in UnguardedOps
    /\ LET c == fs_call[current_task]
       IN  ObsOp([op |-> c.op, name |-> c.name,
                  ret |-> UnguardedResult(c.op, c.name)])
    /\ fs_call' = [fs_call EXCEPT ![current_task] = NoCall]
    /\ UNCHANGED <<kvars, sleep_req, sleep_deadline, sleep_seen, semvars, mqvars, tmvars, memvars,
                   mounted, fs_table, fs_data, fs_file_count, sec_buf, uart_rx, uart_tx>>

\* fs_create and fs_delete run from irq_save() to irq_restore() in one piece.
GuardedCreate == FsCallFree /\ FsCreateP(GuardNames, GuardSizes)
GuardedDelete == FsCallFree /\ FsDeleteP(GuardNames)

\* fs_upload of one full sector by task 1, the shell task.
SharedBegin == current_task = 1 /\ UploadBeginP(GuardNames, {FS_SECTOR_SIZE})

\* The first tick after sched_start, which takes the processor from idle.
SharedStart == current_task = IDLE_TASK_ID /\ Tick

\* task_yield() of a task that is not inside a filesystem call.
SharedYield == FsCallFree /\ TaskYield

\* ------------------------------------------------ other dispatcher passes

\* An exception cause other than a level-1 interrupt (illegal instruction).
EXCCAUSE_ILLEGAL == 0

\* uart_isr_handler: the byte in the FIFO goes to the receive ring, or is
\* dropped when the ring is full.
UartRx ==
    \E b \in HostBytes :
        uart_rx' = IF Len(uart_rx) < RxCap THEN Append(uart_rx, b) ELSE uart_rx

\* The UART interrupt arrives between two task steps, alone or with the
\* timer pending in the same pass.
Peripheral ==
    /\ started
    /\ \E timer \in BOOLEAN :
         Pass(IF timer THEN "tick" ELSE "uart", EXCCAUSE_LEVEL1_INTERRUPT,
              {INUM_UART} \cup (IF timer THEN {INUM_TIMER_FRC1} ELSE {}))
    /\ UartRx
    /\ UNCHANGED <<pc, semvars, mqvars, tmvars, memvars,
                   mounted, fs_table, fs_data, fs_file_count, sec_buf, fs_call, uart_tx>>

\* A non-interrupt exception is taken, whatever interrupts are pending.
Exception ==
    /\ started
    /\ \E intr \in SUBSET {INUM_TIMER_FRC1, INUM_UART} :
         Pass("exception", EXCCAUSE_ILLEGAL, intr)
    /\ UNCHANGED <<pc, semvars, mqvars, tmvars, fsvars, memvars>>

\* -------------------------------------------------------- allocator actions

\* Sizes asked of heap_alloc: none, within one word, two words, three words,
\* the largest that fits, the whole region, and the largest uint32_t.
HeapSizes == {0, 1, 5, 12, HEAP_SIZE - HDR_SIZE, HEAP_SIZE, HEAP_WORD - 1}

\* An allocator call taken as one step of the running task (its section runs
\* between irq_save and irq_restore).
MemStep(o) ==
    /\ Running(current_task)
    /\ ObsOp(o)
    /\ UNCHANGED <<kvars, sleep_req, sleep_deadline, sleep_seen, semvars, mqvars, tmvars,
                   fsvars>>

PoolSame == UNCHANGED <<free_list, pool_next, free_count, used_count, pool_held>>

HeapAlloc ==
    \E size \in HeapSizes :
        LET r == heap_alloc(heap, size)
        IN  /\ heap' = r.heap
            /\ heap_hist' =
                   [(IF heap_hist.phase \in {"frees", "mixed"}
                     THEN [phase |-> "mixed", desc |-> FALSE, last |-> NULL,
                           live |-> heap_hist.live]
                     ELSE IF r.ret # NULL THEN [heap_hist EXCEPT !.phase = "allocs"]
                     ELSE heap_hist)
                    EXCEPT !.live = IF r.ret = NULL THEN @ ELSE @ \cup {r.ret}]
            /\ MemStep([op |-> "heap_alloc", size |-> size, ret |-> r.ret,
                        frags |-> heap_frag_count(heap)])
            /\ PoolSame

\* heap_free of NULL or of a pointer heap_alloc returned and nobody freed since.
HeapFree ==
    \E ptr \in HeapLive(heap) \cup {NULL} :
        /\ heap' = heap_free(heap, ptr)
        /\ heap_hist' =
               [(IF ptr = NULL \/ heap_hist.phase = "mixed" THEN heap_hist
                 ELSE [phase |-> "frees",
                       desc |-> IF heap_hist.phase = "allocs" THEN TRUE
                                ELSE heap_hist.desc /\ ptr < heap_hist.last,
                       last |-> ptr, live |-> heap_hist.live])
                EXCEPT !.live = @ \ {ptr}]
        /\ MemStep([op |-> "heap_free", ptr |-> ptr])
        /\ PoolSame

PoolAlloc ==
    LET r == pool_alloc(Pool)
    IN  /\ free_list' = r.pool.list
        /\ pool_next' = r.pool.next
        /\ free_count' = r.pool.free
        /\ used_count' = r.pool.used
        /\ pool_held' = IF r.ret = NULL THEN pool_held ELSE pool_held \cup {r.ret}
        /\ MemStep([op |-> "pool_alloc", ret |-> r.ret,
                    prev |-> IF last_op.op = "pool_free" THEN last_op.ptr ELSE NULL])
        /\ UNCHANGED <<heap, heap_hist>>

\* pool_free of NULL or of a block pool_alloc returned and nobody freed since.
PoolFree ==
    \E ptr \in pool_held \cup {NULL} :
        LET p == pool_free(Pool, ptr)
        IN  /\ free_list' = p.list
            /\ pool_next' = p.next
            /\ free_count' = p.free
            /\ used_count' = p.used
            /\ pool_held' = pool_held \ {ptr}
            /\ MemStep([op |-> "pool_free", ptr |-> ptr])
            /\ UNCHANGED <<heap, heap_hist>>

\* ------------------------------------------------ scheduler specification
Next ==
    \/ TaskCreate
    \/ SchedStart
    \/ Tick
    \/ TaskYield
    \/ TaskExit

Spec == Init /\ [][Next]_vars

\* ------------------------------------------------- task_create specification
\* The scheduler specification, with what each task_create call returned.
InitCreate == SchedInit("create")

SpecCreate == InitCreate /\ [][Next]_vars

\* ---------------------------------------------------- sleep specification
\* The two tasks kernel_main creates, sleeping and yielding.
InitSleep == Booted(2, "sleep") /\ SemInit(0, 0) /\ MqInit /\ TimerInit /\ FsBlank /\ MemInit

NextSleep ==
    \/ Tick
    \/ TaskYield
    \/ TaskDelay
    \/ DelayYield

SpecSleep == InitSleep /\ [][NextSleep]_vars

\* ------------------------------------------------ semaphore specification
\* Three tasks share a mutex and a counting semaphore initialised to n.
InitSem ==
    /\ Booted(3, "sem")
    /\ \E n \in 0 .. MaxSemCount : SemInit(n, 0)
    /\ MqInit
    /\ TimerInit /\ FsBlank /\ MemInit

NextSem ==
    \/ Tick
    \/ TaskYield
    \/ SemWait
    \/ SemTryWait
    \/ SemPost
    \/ MutexLock
    \/ MutexTryLock
    \/ MutexUnlock
    \/ WaitYield
    \/ WaitReturn

SpecSem == InitSem /\ [][NextSem]_vars

\* -------------------------------------------- message queue specification
\* Two tasks, as kernel_main creates, send to and receive from one queue of
\* MqCapacity messages.
InitMq ==
    /\ Booted(2, "mq")
    /\ SemInit(0, MqCapacity)
    /\ MqInit
    /\ TimerInit /\ FsBlank /\ MemInit

NextMq ==
    \/ Tick
    \/ TaskYield
    \/ MqSend
    \/ MqTrySend
    \/ MqSendCopy
    \/ MqSendPost
    \/ MqRecv
    \/ MqTryRecv
    \/ MqRecvCopy
    \/ MqRecvPost
    \/ WaitYield
    \/ WaitReturn

SpecMq == InitMq /\ [][NextMq]_vars

\* ------------------------------------------- interrupt-context specification
\* kernel_main's two tasks wait on and post a semaphore and send to and
\* receive from a queue, while callbacks in interrupt context post the
\* semaphore and send to the queue.
InitIsr ==
    /\ Booted(2, "isr")
    /\ SemInit(0, MqCapacity)
    /\ MqInit
    /\ TimerInit /\ FsBlank /\ MemInit

NextIsr ==
    \/ Tick
    \/ SemWait
    \/ SemPost
    \/ MqSend
    \/ MqSendCopy
    \/ MqSendPost
    \/ MqRecv
    \/ MqRecvCopy
    \/ MqRecvPost
    \/ WaitYield
    \/ WaitReturn
    \/ IsrSemPost
    \/ IsrMqTrySend

SpecIsr == InitIsr /\ [][NextIsr]_vars

\* ------------------------------------------------ dispatcher specification
\* kernel_main's two tasks sleep, wait on and post a semaphore, yield and
\* return, under every kind of dispatcher pass; a callback posts the
\* semaphore in interrupt context.
InitPass == Booted(2, "pass") /\ SemInit(0, 0) /\ MqInit /\ TimerInit /\ FsBlank /\ MemInit

NextPass ==
    \/ Tick
    \/ TaskYield
    \/ TaskDelay
    \/ DelayYield
    \/ SemWait
    \/ SemPost
    \/ WaitYield
    \/ WaitReturn
    \/ TaskExit
    \/ Peripheral
    \/ Exception
    \/ IsrSemPost

SpecPass == InitPass /\ [][NextPass]_vars

\* ------------------------------------------- software timer specification
\* One task (the shell) arms and disarms timers while ticks arrive.
InitTimer ==
    /\ Booted(1, "timer")
    /\ SemInit(0, 0)
    /\ MqInit
    /\ TimerInit /\ FsBlank /\ MemInit

NextTimer ==
    \/ Tick
    \/ SwtimerInit
    \/ SwtimerStart
    \/ SwtimerStop
    \/ SwtimerTick

SpecTimer == InitTimer /\ [][NextTimer]_vars

\* ------------------------------------------ timer registry specification
\* A task owns SWTIMER_MAX + 1 initialised timers and starts and stops them
\* while swtimer_tick runs; swtimer_init is not called again.
InitRegistry ==
    /\ Booted(1, "timer")
    /\ SemInit(0, 0)
    /\ MqInit
    /\ timers = [t \in RegistryTimers |->
                   [interval |-> 0, expire_tick |-> 0, mode |-> SWTIMER_ONESHOT, active |-> 0]]
    /\ timer_list = <<>>
    /\ FsBlank /\ MemInit

NextRegistry ==
    \/ RegistryTick
    \/ RegistryStart
    \/ RegistryStop
    \/ SwtimerTick

SpecRegistry == InitRegistry /\ [][NextRegistry]_vars

\* ------------------------------------------ timer callback specification
\* A task starts and stops timers whose callbacks call the timer API.
NextCallback ==
    \/ RegistryTick
    \/ SwtimerStart
    \/ SwtimerStop
    \/ CallbackTick

SpecCallback == InitTimer /\ [][NextCallback]_vars

\* ------------------------------------------- periodic timer specification
\* One timer is started periodic and left alone while the other timers are
\* initialised, started and stopped, and every tick pass runs swtimer_tick.
InitPeriodic ==
    /\ Booted(1, "periodic")
    /\ SemInit(0, 0)
    /\ MqInit
    /\ TimerInit /\ FsBlank /\ MemInit

NextPeriodic ==
    \/ ServicedTick
    \/ PeriodicStart
    \/ OtherInit
    \/ OtherStart
    \/ OtherStop

SpecPeriodic == InitPeriodic /\ [][NextPeriodic]_vars

\* ------------------------------------------------ filesystem specification
\* The shell task, running after the first tick, works on a freshly formatted
\* filesystem.
InitFsW(w) ==
    LET b == BootCreate(1, [i \in Tasks |-> IF i = IDLE_TASK_ID THEN "Ready" ELSE "Free"],
                        [i \in Tasks |-> 0])
        k == os_exception_handler(
                 [state |-> [b.state EXCEPT ![IDLE_TASK_ID] = "Running"],
                  wake_tick |-> [i \in Tasks |-> 0],
                  current_task |-> IDLE_TASK_ID, last_scheduled |-> IDLE_TASK_ID,
                  tick_count |-> 0],
                 EXCCAUSE_LEVEL1_INTERRUPT, {INUM_TIMER_FRC1}).k
    IN  /\ watch = w
        /\ task_state = k.state
        /\ task_priority = b.priority
        /\ wake_tick = k.wake_tick
        /\ current_task = k.current_task
        /\ last_scheduled = k.last_scheduled
        /\ tick_count = k.tick_count
        /\ started = TRUE
        /\ pc = [i \in Tasks |-> IF i = IDLE_TASK_ID THEN "idle"
                                 ELSE IF b.state[i] = "Free" THEN "free" ELSE "run"]
        /\ last_pass = NoPass
        /\ skipped = [i \in Tasks |-> 0]
        /\ sleep_req = [i \in Tasks |-> -1]
        /\ sleep_deadline = [i \in Tasks |-> 0]
        /\ sleep_seen = [i \in Tasks |-> 0]
        /\ last_woken = {}
        /\ last_op = NoOp
        /\ created = 0
        /\ SemInit(0, 0)
        /\ MqInit
        /\ TimerInit
        /\ FsAfterFormat
        /\ MemInit

NextFs ==
    \/ FsCreate
    \/ FsOverwrite
    \/ FsAppend
    \/ FsDelete
    \/ FsRename

InitFs == InitFsW("fs")

SpecFs == InitFs /\ [][NextFs]_vars

\* The same, recording every fs_create call with its arguments and result.
InitFsCreate == InitFsW("fs_create")

\* Files come and go by fs_create, fs_delete and fs_rename only.
NextFsCreate == FsCreate \/ FsDelete \/ FsRename

SpecFsCreate == InitFsCreate /\ [][NextFsCreate]_vars

\* Files are created and deleted under a plain name and under a name that
\* starts with the erased-flash byte, and renamed.
InitFsCount == InitFsW("fs")

NextFsCount == CountCreate \/ CountDelete \/ FsRename

SpecFsCount == InitFsCount /\ [][NextFsCount]_vars

\* Files of one byte, one sector and one sector and a byte are created,
\* deleted and read into buffers of several sizes; every fs_read is recorded.
InitFsRead == InitFsW("fs_read")

NextFsRead == ReadCreate \/ FsDelete \/ FsRead \/ Tick

SpecFsRead == InitFsRead /\ [][NextFsRead]_vars

\* Files are created and overwritten; every fs_overwrite call is recorded.
InitFsOverwrite == InitFsW("fs_overwrite")

NextFsOverwrite == FsCreate \/ FsOverwrite

SpecFsOverwrite == InitFsOverwrite /\ [][NextFsOverwrite]_vars

\* The shell task uploads files, one call after another.
InitUpload == InitFsW("upload")

NextUpload ==
    \/ UploadBegin
    \/ UploadFor
    \/ UploadRecv
    \/ TimedYield
    \/ UploadCheck
    \/ UploadWrite
    \/ UploadAck
    \/ HostSend
    \/ UploadTick

SpecUpload == InitUpload /\ [][NextUpload]_vars

\* Task 1 uploads a file while the other task of equal priority calls
\* fs_stat, fs_read, fs_free and fs_create whenever it runs.  Tasks change
\* only at a task_yield(): the one fs_upload makes while it waits for a byte,
\* and the other task's own.
InitShared ==
    /\ Booted(2, "upload")
    /\ SemInit(0, 0)
    /\ MqInit
    /\ TimerInit
    /\ FsAfterFormat
    /\ MemInit

NextShared ==
    \/ SharedBegin
    \/ UploadFor
    \/ UploadRecv
    \/ UploadYield
    \/ UploadCheck
    \/ UploadWrite
    \/ UploadAck
    \/ HostSend
    \/ SharedStart
    \/ SharedYield
    \/ FsLoadTable
    \/ FsUseTable
    \/ GuardedCreate

SpecShared == InitShared /\ [][NextShared]_vars

\* kernel_main's two tasks of equal priority both use the filesystem, and
\* the tick interrupt switches between them.
InitGuard ==
    /\ Booted(2, "guard")
    /\ SemInit(0, 0)
    /\ MqInit
    /\ TimerInit
    /\ FsAfterFormat
    /\ MemInit

NextGuard ==
    \/ Tick
    \/ FsLoadTable
    \/ FsUseTable
    \/ GuardedCreate
    \/ GuardedDelete

SpecGuard == InitGuard /\ [][NextGuard]_vars

\* Files are created and appended to; every fs_append call is recorded.
InitFsAppend == InitFsW("fs_append")

NextFsAppend == FsCreate \/ FsAppend

SpecFsAppend == InitFsAppend /\ [][NextFsAppend]_vars

\* ------------------------------------------------------ heap specification
\* The shell task allocates from and frees to a freshly initialised heap.
InitHeap == InitFsW("heap")

NextHeap == HeapAlloc \/ HeapFree

SpecHeap == InitHeap /\ [][NextHeap]_vars

\* ------------------------------------------------------ pool specification
\* The shell task and the tick: blocks taken from and returned to the pool.
InitPool == InitFsW("pool")

NextPool == PoolAlloc \/ PoolFree \/ Tick

SpecPool == InitPool /\ [][NextPool]_vars

\* ------------------------------------------------------------------ claims

TickPass == last_pass.kind = "tick"

\* C1: whenever schedule() has selected the task to run, no task that is Ready
\* at that moment has a strictly greater priority than the selected task.
C1_PrioritySelection ==
    last_pass.scheduled =>
        \A t \in Tasks :
            task_state[t] = "Ready" => task_priority[t] <= task_priority[current_task]

\* C2: a non-idle task that stays Ready is passed over by at most MAX_TASKS-2
\* consecutive schedule() calls, i.e. it is selected within MAX_TASKS-1 calls.
C2_BoundedWait ==
    \A t \in UserTasks : skipped[t] <= MAX_TASKS - 2

\* C2 witness: a Ready task has been passed over MAX_TASKS-2 times in a row
\* (every other user slot was served before it).
C2_Witness ==
    \E t \in UserTasks :
        /\ skipped[t] = MAX_TASKS - 2
        /\ task_state[t] = "Ready"
        /\ last_pass.scheduled

\* C7: at the end of a tick pass, every task still asleep has a deadline that
\* has not arrived (signed difference tick_count - deadline negative): a
\* sleeper whose deadline arrived is Ready or Running by the end of the pass.
C7_WokenAtDeadline ==
    TickPass =>
        \A t \in Tasks :
            sleep_req[t] >= 0 => SignedDiff(tick_count, sleep_deadline[t]) < 0

\* C8: a sleeper that asked for ticks < 2^(w-1) is made Ready by the tick
\* dispatcher only after at least that many tick passes since its call.
C8_NoEarlyWake ==
    \A w \in last_woken :
        (w.req >= 0 /\ w.req < TICK_HALF) => w.seen >= w.req

\* C8 witness: a sleeper is woken after its deadline wrapped past 2^w
\* (the tick counter now reads less than the ticks it slept).
C8_Witness ==
    \E w \in last_woken :
        /\ w.req >= 2 /\ w.req < TICK_HALF
        /\ w.seen = w.req
        /\ tick_count < w.req

\* C3: a semaphore initialised to n never has more than n units out: the
\* acquisitions (sem_wait returns and sem_trywait successes) minus the posts
\* stay at or below n; a task that blocked in sem_wait is running past it only
\* after a sem_post handed it the unit; and at most one task is between
\* mutex_lock and mutex_unlock.
C3_CountingBound ==
    /\ \A s \in {"sem", "mutex"} : sem_net[s] <= sem_n[s]
    /\ \A t \in UserTasks :
         (t = current_task /\ pc[t] = "wait_resume") => handed[t]
    /\ Cardinality({ t \in Tasks : holds[t] }) <= 1

\* C3 witness: the counting semaphore has no unit left, one task holds the
\* mutex with another blocked on it, and a task that blocked is running again
\* with the unit a post handed it.
C3_Witness ==
    /\ sem_n["sem"] >= 1
    /\ sem_count["sem"] = 0
    /\ \E t \in UserTasks : holds[t]
    /\ Len(sem_waiters["mutex"]) >= 1
    /\ pc[current_task] = "wait_resume"
    /\ handed[current_task]

Live == Len(copied_in) - Len(copied_out)

IsPrefix(a, b) == Len(a) <= Len(b) /\ a = SubSeq(b, 1, Len(a))

\* C5: whatever the interleaving of mq_send, mq_trysend, mq_recv and
\* mq_tryrecv, the messages copied out are, in order, a prefix of the messages
\* copied in: nothing is lost, duplicated or reordered.
C5_FifoPrefix == IsPrefix(copied_out, copied_in)

\* C5 witness: a sender was preempted between its gate and its copy, and all
\* three messages have gone through the queue, wrapping the ring.
C5_Witness ==
    /\ Len(copied_out) = MaxMsgs
    /\ \E i \in 1 .. Len(copied_in) : copied_in[i] # i
    /\ mq_tail # 0

\* C6: the number of messages in the queue stays between 0 and the capacity,
\* a copy-in never lands on a slot whose message has not been copied out, and
\* on a full queue mq_send blocks, running on only after a receive's post
\* handed it the freed slot, and mq_trysend returns -1 leaving head, tail and
\* both semaphores as they were.
C6_BoundedQueue ==
    /\ 0 <= Live /\ Live <= MqCapacity
    /\ last_op.op = "copy_in" => ~last_op.overwrote
    /\ (last_op.op = "wait" /\ last_op.call = "mq_send" /\ Live = MqCapacity)
          => ~last_op.took
    /\ \A t \in UserTasks :
         (t = current_task /\ pc[t] = "wait_resume" /\ call[t] = "mq_send")
            => handed[t]
    /\ (last_op.op = "trywait" /\ last_op.sem = "not_full")
          => /\ Live = MqCapacity => last_op.ret = -1
             /\ last_op.ret = -1 =>
                  last_op.before = <<mq_head, mq_tail, sem_count, sem_waiters>>

\* C6 witness: mq_trysend has just failed on a full queue.
C6_Witness ==
    /\ last_op.op = "trywait"
    /\ last_op.sem = "not_full"
    /\ last_op.ret = -1
    /\ Live = MqCapacity

\* C9: swtimer_tick runs in every timer-tick pass after tick_count++, so at
\* the end of a tick pass no registered, active timer is left due, except a
\* periodic one whose reload (tick_count + interval) is itself already due.
C9_DueTimerServiced ==
    TickPass =>
        \A i \in 1 .. Len(timer_list) :
            LET t == timers[timer_list[i]]
            IN  (t.active = 1 /\ SignedDiff(tick_count, t.expire_tick) >= 0)
                   => /\ t.mode = SWTIMER_PERIODIC
                      /\ (t.interval = 0 \/ t.interval > TICK_HALF)

TicksToExpiry == (timers[PERIODIC_TIMER].expire_tick - tick_count) % TICK_MOD

\* The observed timer's callback was invoked in the last tick pass.
PeriodicFired ==
    /\ last_op.op = "swtimer_tick"
    /\ \E i \in 1 .. Len(last_op.calls) : last_op.calls[i].id = PERIODIC_TIMER

\* The observed timer fires exactly at s + k*p: once started it stays active
\* and registered, every invocation of its callback happens on the very tick
\* of its expiry, and between passes its next expiry is 1 .. p ticks ahead
\* (so no expiry is passed without a firing).
PeriodicExact ==
    timers[PERIODIC_TIMER].active = 1 =>
        /\ \E i \in 1 .. Len(timer_list) : timer_list[i] = PERIODIC_TIMER
        /\ timers[PERIODIC_TIMER].mode = SWTIMER_PERIODIC
        /\ TicksToExpiry >= 1
        /\ TicksToExpiry <= timers[PERIODIC_TIMER].interval
        /\ last_op.op = "swtimer_tick" =>
             \A i \in 1 .. Len(last_op.calls) :
                 last_op.calls[i].id = PERIODIC_TIMER =>
                     /\ last_op.calls[i].diff = 0
                     /\ TicksToExpiry = timers[PERIODIC_TIMER].interval

SectorsNeeded(n) == (n + FS_SECTOR_SIZE - 1) \div FS_SECTOR_SIZE

\* No non-free entry of the table is stored under the name.
Absent(table, name) ==
    \A i \in FileSlots : entry_free(table[i]) \/ table[i].name # name

SlotExists(table) == \E i \in FileSlots : entry_free(table[i])

\* Sectors inside the run of some non-free entry.
UsedSectors(table) ==
    { d \in Sectors : \E i \in FileSlots :
          /\ ~entry_free(table[i])
          /\ d >= table[i].start_sector
          /\ d < table[i].start_sector + table[i].sector_count }

\* A run of n contiguous free data sectors exists.
RunExists(table, n) ==
    \E first \in 0 .. (FS_DATA_SECTORS - n) :
        \A k \in 0 .. (n - 1) : (first + k) \notin UsedSectors(table)

\* The step was an fs_create call (its record is in last_op').
CreateStep == last_op'.op = "fs_create"

\* C12: on a mounted filesystem, fs_create of an absent non-empty name with
\* 0 < |b| <= D*S bytes, when a table slot and a free run exist, succeeds, and
\* fs_read of that name then returns |b| and the bytes b, and fs_stat |b|.
C12_CreateThenRead ==
    [][ ( /\ CreateStep
          /\ mounted
          /\ Absent(fs_table, last_op'.name)
          /\ last_op'.size > 0
          /\ last_op'.size <= FS_DATA_SECTORS * FS_SECTOR_SIZE
          /\ SlotExists(fs_table)
          /\ RunExists(fs_table, SectorsNeeded(last_op'.size)) )
        => ( /\ last_op'.ret = 0
             /\ fs_read(FS', last_op'.name, last_op'.size).ret = last_op'.size
             /\ fs_read(FS', last_op'.name, last_op'.size).out
                  = [j \in 1 .. last_op'.size |-> last_op'.tag]
             /\ fs_stat(FS', last_op'.name).ret = last_op'.size ) ]_vars

\* Entry i's run of sectors shares no sector with entry j's.
Disjoint(a, b) ==
    \/ a.start_sector + a.sector_count <= b.start_sector
    \/ b.start_sector + b.sector_count <= a.start_sector

\* Every non-free entry of the table lies inside the data area, has room for
\* its size, and overlaps no other non-free entry.
WellFormed(table) ==
    \A i \in FileSlots :
        ~entry_free(table[i]) =>
            /\ table[i].start_sector + table[i].sector_count <= FS_DATA_SECTORS
            /\ SectorsNeeded(table[i].size) <= table[i].sector_count
            /\ \A j \in FileSlots \ {i} :
                   ~entry_free(table[j]) => Disjoint(table[i], table[j])

\* C13: after fs_format and any sequence of filesystem calls, every non-free
\* entry lies inside the data area (start_sector + sector_count <= D), has
\* room for its size (ceil(size / S) <= sector_count), and no two non-free
\* entries overlap in sector range.
C13_EntriesWellFormed == WellFormed(fs_table)

\* C14: after any sequence of filesystem calls, no two non-free entries hold
\* the same stored name, whatever the length of the names passed.
C14_UniqueNames ==
    \A i, j \in FileSlots :
        ( /\ i # j
          /\ ~entry_free(fs_table[i])
          /\ ~entry_free(fs_table[j]) ) => fs_table[i].name # fs_table[j].name

\* C15: fs_create returns failure and leaves the file table, the superblock
\* and every data sector unchanged when the name is already present, when
\* every table entry is in use, or when no run of ceil(len / S) contiguous
\* free sectors exists.
C15_CreateRejects ==
    [][ ( /\ CreateStep
          /\ mounted
          /\ \/ ~Absent(fs_table, last_op'.name)
             \/ ~SlotExists(fs_table)
             \/ ~RunExists(fs_table, SectorsNeeded(last_op'.size)) )
        => ( /\ last_op'.ret = -1
             /\ UNCHANGED <<fs_table, fs_file_count, fs_data>> ) ]_vars

\* The step was an fs_append call (its record is in last_op').
AppendStep == last_op'.op = "fs_append"

\* The bytes of the named file before the step.
OldContent(name) == fs_read(FS, name, fs_stat(FS, name).ret).out

\* C16: fs_append to an existing file fails with no change when
\* ceil((size + len) / S) > sector_count; otherwise it succeeds, reading the
\* file back gives the old content followed by the data, only the size field
\* of the file's entry changes, and no sector outside the file's run is
\* modified; for every len.  (Stated from a table whose entries are well formed.)
C16_AppendInPlace ==
    [][ ( /\ AppendStep
          /\ mounted
          /\ WellFormed(fs_table)
          /\ find_file(fs_table, last_op'.name) >= 0 )
        => LET name == last_op'.name
               len == last_op'.size
               idx == find_file(fs_table, name)
               e == fs_table[idx]
               total == e.size + len
           IN  IF SectorsNeeded(total) > e.sector_count
               THEN /\ last_op'.ret = -1
                    /\ UNCHANGED <<fs_table, fs_file_count, fs_data>>
               ELSE /\ last_op'.ret = 0
                    /\ fs_table' = [fs_table EXCEPT ![idx].size = total]
                    /\ \A d \in Sectors :
                           (d < e.start_sector \/ d >= e.start_sector + e.sector_count)
                               => fs_data'[d] = fs_data[d]
                    /\ fs_read(FS', name, total).out
                         = OldContent(name) \o [j \in 1 .. len |-> last_op'.tag] ]_vars

\* The number of '#' bytes in the serial output.
Hashes(out) == Cardinality({ i \in 1 .. Len(out) : out[i] = "#" })

\* The k-th sector's share (k from 0) of a payload of the given total size.
SectorShare(payload, total, k) ==
    SubSeq(payload, k * FS_SECTOR_SIZE + 1,
           IF (k + 1) * FS_SECTOR_SIZE < total THEN (k + 1) * FS_SECTOR_SIZE ELSE total)

\* An fs_upload call has just returned success / has just timed out.
UploadSucceeded == last_op.op = "fs_upload" /\ last_op.why = "ok"
UploadTimedOut == last_op.op = "fs_upload" /\ last_op.why = "timeout"

\* C17: a successful fs_upload(name, total) emits READY only once the entry is
\* stamped in the file table, then exactly ceil(total / S) '#' bytes, the k-th
\* only after the k-th sector's payload bytes were received and the sector
\* was written to flash, and finally the OK line; afterwards
\* fs_stat(name) = total.
C17_UploadTranscript ==
    /\ \A t \in Tasks :
         fs_call[t].op = "fs_upload" =>
           LET c == fs_call[t]
           IN  /\ uart_tx[1] = "READY\n"
               /\ \E i \in FileSlots :
                      /\ ~entry_free(fs_table[i])
                      /\ fs_table[i].name = fs_strncpy(c.name, FS_NAME_LEN)
                      /\ fs_table[i].size = c.total
               /\ Hashes(uart_tx) <= SectorsNeeded(c.total)
               /\ \A k \in 0 .. (Hashes(uart_tx) - 1) :
                      /\ Len(c.payload) >= Len(SectorShare(c.payload, c.total, k))
                                             + k * FS_SECTOR_SIZE
                      /\ SectorShare(c.payload, c.total, k) # <<>>
                      /\ fs_data[c.start + k]
                           = PaddedSector(SectorShare(c.payload, c.total, k))
    /\ UploadSucceeded =>
           LET n == SectorsNeeded(last_op.total)
           IN  /\ Len(uart_tx) >= n + 2
               /\ uart_tx[1] = "READY\n"
               /\ \A i \in 2 .. (n + 1) : uart_tx[i] = "#"
               /\ uart_tx[n + 2] = "\nOK "
               /\ Hashes(uart_tx) = n
               /\ fs_stat(FS, last_op.name).ret = last_op.total

\* The tokens of the last line after "OK ", up to the closing newline.
OkLine ==
    LET i == CHOOSE j \in 1 .. Len(uart_tx) : uart_tx[j] = "\nOK "
    IN  SubSeq(uart_tx, i + 1, Len(uart_tx) - 1)

C19_TimeoutReleases ==
    UploadTimedOut =>
        /\ last_op.ret = -1
        /\ uart_tx[Len(uart_tx)] = "ERR timeout\n"
        /\ \A i \in 1 .. Len(uart_tx) : uart_tx[i] # "\nOK "
        /\ Absent(fs_table, fs_strncpy(last_op.name, FS_NAME_LEN))
        /\ \A k \in 0 .. (last_op.nsec - 1) :
               (last_op.start + k) \notin UsedSectors(fs_table)

\* C20: every filesystem operation holds the interrupt guard from its first
\* file-table read until its last use of the staging buffer, so that no other
\* task's filesystem operation runs in between: a task that is between the
\* two still finds in the staging buffer the table it read.
C20_NoInterleaving ==
    \A t \in Tasks :
        fs_call[t].op \notin {"none", "fs_upload"} => sec_buf = "table"

\* ------------------------------------------------------------ heap claims

\* Every pointer the allocations returned has been freed, and no heap_alloc
\* was called after the first heap_free.
FullyFreed == heap_hist.phase = "frees" /\ UsedBlocks(heap) = {}

UsedLayout(h) == { <<BlockAddr(h, i), h[i].size>> : i \in UsedBlocks(h) }

\* Block i starts a maximal run of adjacent free blocks.
RunStart(h, i) == ~h[i].used /\ (i = 1 \/ h[i - 1].used)

\* Bytes in the run of free blocks from block i on.
RECURSIVE RunSize(_, _)
RunSize(h, i) == IF i > Len(h) \/ h[i].used THEN 0 ELSE h[i].size + RunSize(h, i + 1)

FitRuns(h, need) == { i \in 1 .. Len(h) : RunStart(h, i) /\ RunSize(h, i) >= need }

\* C22: heap_alloc(n) with 0 < n <= HEAP_SIZE returns the payload of the
\* lowest maximal run of adjacent free blocks of at least ALIGN4(n) + HDR_SIZE
\* bytes, in a used block with a payload of at least n bytes; it returns NULL
\* only when there is no such run; a failing call (n = 0 included) leaves the
\* used blocks and their sizes as they were.
C22_FirstFit ==
    [][ last_op'.op = "heap_alloc" =>
          LET n == last_op'.size
              ret == last_op'.ret
              fit == FitRuns(heap, ALIGN4(n) + HDR_SIZE)
          IN  /\ n = 0 => ret = NULL
              /\ (n > 0 /\ n <= HEAP_SIZE) =>
                    IF fit = {} THEN ret = NULL
                    ELSE /\ ret = BlockAddr(heap, Min(fit)) + HDR_SIZE
                         /\ \E i \in UsedBlocks(heap') :
                               /\ BlockAddr(heap', i) + HDR_SIZE = ret
                               /\ heap'[i].size - HDR_SIZE >= n
                         /\ ret \notin HeapLive(heap)
              /\ ret = NULL => UsedLayout(heap') = UsedLayout(heap) ]_vars

\* C22 witness: a request for the largest payload succeeded on a heap that
\* held more than one free block, so the run was merged during the scan.
C22_Witness ==
    /\ last_op.op = "heap_alloc"
    /\ last_op.size = HEAP_SIZE - HDR_SIZE
    /\ last_op.frags >= 2
    /\ last_op.ret = HDR_SIZE

\* ------------------------------------------------------------ pool claims

\* The blocks of a sequence, as a set.
Range(s) == { s[i] : i \in 1 .. Len(s) }

\* C23: with every freed pointer one that pool_alloc returned and nobody freed
\* since, free_count + used_count = POOL_NUM_BLOCKS, free_count is the length
\* of the free list (which holds exactly the blocks not handed out, each
\* once), pool_alloc returns NULL exactly when used_count = POOL_NUM_BLOCKS,
\* pool_free leaves its block at the head of the list, and a pool_alloc that
\* follows a pool_free returns the block just freed.
C23_PoolConsistent ==
    /\ [](/\ free_count + used_count = POOL_NUM_BLOCKS
          /\ free_count = Len(FreeChain(Pool))
          /\ Range(FreeChain(Pool)) = PoolBlocks \ pool_held
          /\ used_count = Cardinality(pool_held))
    /\ [][ /\ last_op'.op = "pool_alloc" =>
                /\ last_op'.ret = NULL <=> used_count = POOL_NUM_BLOCKS
                /\ last_op'.ret = free_list
                /\ (last_op.op = "pool_free" /\ last_op.ptr # NULL) =>
                       last_op'.ret = last_op.ptr
           /\ (last_op'.op = "pool_free" /\ last_op'.ptr # NULL /\ last_op' # last_op) =>
                  free_list' = last_op'.ptr ]_vars

\* C23 witness: pool_alloc handed out again the block the pool_free before it
\* returned, a block other than the one pool_init left at the head.
C23_Witness ==
    /\ last_op.op = "pool_alloc"
    /\ last_op.prev # NULL
    /\ last_op.ret = last_op.prev
    /\ last_op.ret # pool_init.list
    /\ free_count >= 1

\* ------------------------------------------------------ task_create claims

\* C24: task_create turns the lowest Free slot of 1 .. MAX_TASKS-1 into a
\* Ready task of the given priority and returns its index; with no Free slot
\* it returns -1 and changes no TCB; slot 0 is never returned; no slot goes
\* back to Free, so at most MAX_TASKS-1 calls ever return a slot.
C24_TaskCreate ==
    /\ [](/\ created <= MAX_TASKS - 1
          /\ created = Cardinality({ i \in UserTasks : task_state[i] # "Free" })
          /\ task_state[IDLE_TASK_ID] # "Free")
    /\ [][ /\ \A i \in Tasks : task_state[i] # "Free" => task_state'[i] # "Free"
           /\ last_op'.op = "task_create" =>
                LET free == { i \in UserTasks : task_state[i] = "Free" }
                    ret == last_op'.ret
                IN  IF free = {}
                    THEN /\ ret = -1
                         /\ UNCHANGED <<task_state, task_priority, wake_tick>>
                    ELSE /\ ret = Min(free)
                         /\ ret # IDLE_TASK_ID
                         /\ task_state' = [task_state EXCEPT ![ret] = "Ready"]
                         /\ task_priority' =
                                [task_priority EXCEPT ![ret] = last_op'.priority]
                         /\ UNCHANGED wake_tick ]_vars

\* C24 witness: every slot has been handed out, one of the tasks has died,
\* and a further task_create returned -1.
C24_Witness ==
    /\ last_op.op = "task_create"
    /\ last_op.ret = -1
    /\ created = MAX_TASKS - 1
    /\ \E i \in UserTasks : task_state[i] = "Dead"

\* ------------------------------------------------------- mq_count claims

\* C25: in every state mq_count(q) is the number of messages in the queue,
\* those copied in by a send and not yet copied out by a receive, also while
\* a receiver that blocked on the empty queue has been woken and has not run.
C25_CountIsLive == mq_count(sem_count["not_empty"]) = Live

\* ---------------------------------------------- interrupt-context claims

\* Tasks a sem_post on s has woken that have not yet returned from sem_wait.
Pending(s) ==
    Cardinality({ t \in Tasks : handed[t] /\ call[t] # "none" /\ SemOf(call[t]) = s })

\* Tasks standing at position p of a queue call.
At(p) == Cardinality({ t \in Tasks : pc[t] = p })

\* Count, wait list and units of every semaphore agree.
SemConsistent ==
    \A s \in Sems :
        /\ sem_count[s] >= 0
        /\ sem_count[s] > 0 => sem_waiters[s] = <<>>
        /\ sem_waiters[s] = block_order[s]
        /\ \A i, j \in 1 .. Len(sem_waiters[s]) :
               sem_waiters[s][i] = sem_waiters[s][j] => i = j
        /\ \A i \in 1 .. Len(sem_waiters[s]) :
               LET t == sem_waiters[s][i]
               IN  /\ task_state[t] = "Blocked"
                   /\ call[t] # "none" /\ SemOf(call[t]) = s
                   /\ ~handed[t]
        /\ sem_count[s] + Pending(s) = sem_n[s] - sem_net[s]

\* Head, tail, the two semaphores and the messages in the ring agree.
QueueConsistent ==
    /\ IsPrefix(copied_out, copied_in)
    /\ mq_head = Len(copied_in) % MqCapacity
    /\ mq_tail = Len(copied_out) % MqCapacity
    /\ 0 <= Live /\ Live <= MqCapacity
    /\ \A i \in Slots :
           slot_live[i] <=> \E k \in 0 .. Live - 1 : i = (mq_tail + k) % MqCapacity
    /\ \A k \in 0 .. Live - 1 :
           mq_buf[(mq_tail + k) % MqCapacity] = copied_in[Len(copied_out) + k + 1]
    /\ Live = At("send_post") + sem_count["not_empty"] + Pending("not_empty")
                + At("recv_copy")
    /\ MqCapacity = sem_count["not_full"] + Pending("not_full") + At("send_copy")
                      + Live + At("recv_post")

RunningSet == { t \in Tasks : task_state[t] = "Running" }

\* C27 (as stated): from sched_start on, in every state exactly one TCB is
\* Running and it is the one current_task points at, also between a task
\* marking itself Blocked or Dead and the next dispatcher pass.
C27_ExactlyOneRunning == started => RunningSet = {current_task}

\* C27 (amended): from sched_start on, no TCB other than current_task's is
\* Running; after every pass in which schedule() ran exactly current_task's is;
\* and current_task's is not Running only while that task stands between
\* marking itself Blocked (sem_wait, task_delay_ticks) and its task_yield, or
\* has marked itself Dead, and no pass has run schedule() since.
C27_OnlyCurrentRunning ==
    started =>
        /\ RunningSet \subseteq {current_task}
        /\ last_pass.scheduled => RunningSet = {current_task}
        /\ RunningSet = {} =>
               /\ pc[current_task] \in {"wait_yield", "delay_yield", "dead"}
               /\ task_state[current_task] \in {"Blocked", "Dead", "Ready"}

\* C27 witness: the current task has marked itself Blocked in sem_wait and has
\* not yielded yet; no TCB is Running.
C27_Witness ==
    /\ started
    /\ RunningSet = {}
    /\ task_state[current_task] = "Blocked"
    /\ pc[current_task] = "wait_yield"

\* The kernel state schedule() starts from in the pass just taken: after the
\* tick branch if the timer was pending.
BeforeSchedule(intr) == IF INUM_TIMER_FRC1 \in intr THEN TickBranch(K) ELSE K

\* C28: schedule() leaves the task it selects Running with the cursor on its
\* slot; a selected user task was Ready when schedule() scanned (the current
\* task counting as Ready if it was Running); idle is selected only when no
\* user slot was Ready; every other TCB keeps its state.
C28_ScheduleSelection ==
    [][ last_pass'.scheduled =>
          LET k1 == BeforeSchedule(last_pass'.intr)
              st1 == [t \in Tasks |->
                        IF t = current_task /\ k1.state[t] = "Running" THEN "Ready"
                        ELSE k1.state[t]]
              sel == current_task'
          IN  /\ task_state'[sel] = "Running"
              /\ last_scheduled' = sel
              /\ sel # IDLE_TASK_ID => st1[sel] = "Ready"
              /\ sel = IDLE_TASK_ID => \A t \in UserTasks : st1[t] # "Ready"
              /\ \A t \in Tasks \ {sel} : task_state'[t] = st1[t] ]_vars

\* C28 witness: schedule() fell back to idle while one user task was Blocked,
\* one Dead and one slot Free.
C28_Witness ==
    /\ last_pass.scheduled
    /\ current_task = IDLE_TASK_ID
    /\ \E t \in UserTasks : task_state[t] = "Blocked"
    /\ \E t \in UserTasks : task_state[t] = "Dead"
    /\ \E t \in UserTasks : task_state[t] = "Free"

\* C29: in a pass with the timer pending, tick_count advances, every sleeper
\* whose deadline has arrived is Ready (or selected) at the end of the pass,
\* and the task selected is the first Ready one after the cursor with the
\* woken sleepers counted in: schedule() ran once, after the wake scan, also
\* when the software interrupt is pending too. A yield pass runs schedule()
\* once. A peripheral-only pass and a non-interrupt exception run no
\* schedule() and leave every TCB, the current task, the cursor and the tick
\* count as they were.
C29_PassOrder ==
    [][ last_pass'.kind # "step" =>
          LET p == last_pass'
              now == AddTick(tick_count, 1)
              due == { t \in Tasks : /\ task_state[t] = "Blocked"
                                     /\ wake_tick[t] # 0
                                     /\ SignedDiff(now, wake_tick[t]) >= 0 }
              ready == { t \in UserTasks :
                           \/ task_state[t] \in {"Ready", "Running"}
                           \/ p.kind = "tick" /\ t \in due }
              order == { i \in 1 .. MAX_TASKS : (last_scheduled + i) % MAX_TASKS \in ready }
              first == IF order = {} THEN IDLE_TASK_ID
                       ELSE (last_scheduled + Min(order)) % MAX_TASKS
          IN  /\ p.kind = "tick" =>
                    /\ tick_count' = now
                    /\ \A t \in due : task_state'[t] \in {"Ready", "Running"}
                                      /\ wake_tick'[t] = 0
                    /\ p.scheduled
                    /\ current_task' = first
              /\ p.kind = "yield" =>
                    /\ p.scheduled
                    /\ current_task' = first
                    /\ UNCHANGED <<tick_count, wake_tick>>
              /\ p.kind \in {"uart", "exception"} =>
                    /\ ~p.scheduled
                    /\ UNCHANGED <<task_state, wake_tick, current_task, last_scheduled,
                                   tick_count>> ]_vars

\* C29 witness: the timer and the software interrupt were pending together,
\* and the sleeper the pass woke is the task it selected.
C29_Witness ==
    /\ last_pass.kind = "tick"
    /\ INUM_SOFT \in last_pass.intr
    /\ last_pass.scheduled
    /\ \E w \in last_woken : w.task = current_task
    /\ \E t \in UserTasks \ {current_task} : task_state[t] = "Ready"

\* The places task t takes in the semaphore wait lists.
WaitPlaces(t) ==
    { <<s, i>> \in Sems \X (1 .. MAX_TASKS) :
        i <= Len(sem_waiters[s]) /\ sem_waiters[s][i] = t }

\* C30: every Blocked task either is once in one semaphore wait list with
\* wake_tick 0, or is in no wait list with wake_tick non-zero.
C30_BlockedDichotomy ==
    \A t \in Tasks :
        task_state[t] = "Blocked" =>
            \/ Cardinality(WaitPlaces(t)) = 1 /\ wake_tick[t] = 0
            \/ WaitPlaces(t) = {} /\ wake_tick[t] # 0

\* ------------------------------------------------------ wait list claims

\* C31: for every semaphore used from task context, count >= 0; count > 0
\* only with an empty wait list; num_waiters is at most MAX_TASKS - 1, so no
\* write lands outside waiters[MAX_TASKS]; the listed ids are pairwise
\* distinct user tasks, each Blocked.
C31_WaitListBounded ==
    \A s \in Sems :
        LET wl == sem_waiters[s]
        IN  /\ sem_count[s] >= 0
            /\ sem_count[s] > 0 => wl = <<>>
            /\ Len(wl) <= MAX_TASKS - 1
            /\ \A i, j \in 1 .. Len(wl) : wl[i] = wl[j] => i = j
            /\ \A i \in 1 .. Len(wl) : wl[i] \in UserTasks /\ task_state[wl[i]] = "Blocked"

\* C31 witness: every user task is Blocked in the wait list of one semaphore.
C31_Witness ==
    \E s \in Sems :
        /\ Len(sem_waiters[s]) = MAX_TASKS - 1
        /\ \A t \in UserTasks : task_state[t] = "Blocked"

\* --------------------------------------------------- timer registry claims

Registered(t) == \E i \in 1 .. Len(timer_list) : timer_list[i] = t

\* C32: after any sequence of swtimer_start, swtimer_stop and swtimer_tick
\* runs, a timer is in the registry exactly when its active flag is 1, it is
\* there at most once, swtimer_active_count() is the number of active timers
\* (also with more than SWTIMER_MAX timers started), and a one-shot timer that
\* swtimer_tick just fired is inactive and unregistered.
C32_RegistryMatchesActive ==
    /\ \A t \in DOMAIN timers : Registered(t) <=> timers[t].active = 1
    /\ \A i, j \in 1 .. Len(timer_list) : timer_list[i] = timer_list[j] => i = j
    /\ swtimer_active_count(timer_list) = Cardinality({t \in DOMAIN timers : timers[t].active = 1})
    /\ last_op.op = "swtimer_tick" =>
           \A c \in 1 .. Len(last_op.calls) :
               LET t == last_op.calls[c].id
               IN  timers[t].mode = SWTIMER_ONESHOT => timers[t].active = 0 /\ ~Registered(t)

\* ------------------------------------------------------ heap layout claims

\* The block whose payload starts at p, or 0 if no header sits before p.
HeaderOf(p) ==
    LET hits == { i \in 1 .. Len(heap) : BlockAddr(heap, i) + HDR_SIZE = p }
    IN  IF hits = {} THEN 0 ELSE CHOOSE i \in hits : TRUE

\* C33: after heap_init and any heap_alloc and heap_free of live pointers, the
\* walk over the block headers from the region base sees sizes that are
\* multiples of 4 and at least HDR_SIZE + MIN_DATA, and lands exactly on the
\* region end; every live pointer is the payload of a block marked used, and
\* the payloads of distinct live pointers do not overlap.
C33_HeapTiled ==
    /\ \A i \in 1 .. Len(heap) :
           /\ heap[i].size % 4 = 0
           /\ heap[i].size >= HDR_SIZE + MIN_DATA
    /\ BlockAddr(heap, Len(heap) + 1) = HEAP_SIZE
    /\ \A p \in heap_hist.live : HeaderOf(p) # 0 /\ heap[HeaderOf(p)].used
    /\ \A p, q \in heap_hist.live :
           p < q => p - HDR_SIZE + heap[HeaderOf(p)].size <= q - HDR_SIZE

\* C33 witness: a heap_free that merged free blocks left two live allocations
\* with a free block between them.
C33_Witness ==
    /\ last_op.op = "heap_free"
    /\ Cardinality(heap_hist.live) = 2
    /\ Len(heap) >= 3
    /\ \E i \in 2 .. Len(heap) - 1 : ~heap[i].used /\ heap[i - 1].used /\ heap[i + 1].used

\* C37: heap_alloc(n) returns non-NULL only if the block it marked used has a
\* payload of at least n bytes; every request above HEAP_SIZE - HDR_SIZE,
\* the ones near the top of uint32_t included, returns NULL.
C37_PayloadCoversRequest ==
    last_op.op = "heap_alloc" =>
        /\ last_op.ret # NULL =>
               /\ HeaderOf(last_op.ret) # 0
               /\ heap[HeaderOf(last_op.ret)].used
               /\ heap[HeaderOf(last_op.ret)].size - HDR_SIZE >= last_op.size
        /\ last_op.size > HEAP_SIZE - HDR_SIZE => last_op.ret = NULL

\* ------------------------------------------------- sector allocation claims

\* The sector numbers entry e claims: start_sector .. start_sector + sector_count - 1.
RunOf(e) == { e.start_sector + k : k \in 0 .. (e.sector_count - 1) }

\* The starts a run of `count` unmarked sectors can have inside the data area.
FreeStarts(bmap, count) ==
    { s \in Sectors : s + count <= FS_DATA_SECTORS /\ \A k \in 0 .. (count - 1) : s + k \notin bmap }

\* C34: the bitmap built from the file table marks exactly the sectors in the
\* run of some non-free entry, and alloc_sectors with count >= 1 returns the
\* lowest start of a run of count unmarked sectors that ends inside the data
\* area, or -1 when there is none.
C34_BitmapAndRunFinder ==
    /\ \A b \in 0 .. (2 * NSEC_MOD) :
           b \in build_bitmap(fs_table) <=>
               \E i \in FileSlots : ~entry_free(fs_table[i]) /\ b \in RunOf(fs_table[i])
    /\ \A bmap \in SUBSET Sectors, count \in 1 .. (FS_DATA_SECTORS + 1) :
           alloc_sectors(bmap, count) =
               IF FreeStarts(bmap, count) = {} THEN -1 ELSE Min(FreeStarts(bmap, count))

\* C34 witness: two files with a freed sector between them, so the lowest
\* run of two unmarked sectors does not exist while a run of one does.
C34_Witness ==
    /\ build_bitmap(fs_table) = {0, 2}
    /\ alloc_sectors(build_bitmap(fs_table), 1) = 1
    /\ alloc_sectors(build_bitmap(fs_table), 2) = -1

\* ---------------------------------------------------------- file count claims

\* Table entries in use, by entry_free.
NonFree(table) == { i \in FileSlots : ~entry_free(table[i]) }

\* C35: after fs_format and any sequence of completed filesystem operations,
\* the superblock's file_count equals the number of non-free table entries.
C35_FileCountMatches ==
    (\A t \in Tasks : fs_call[t].op = "none") => fs_file_count = Cardinality(NonFree(fs_table))

\* ------------------------------------------------------------ fs_read claims

\* C36: fs_read(name, out, max) of an existing file returns min(size, max)
\* and writes exactly that many bytes: no byte of the caller's memory at an
\* offset >= min(size, max) is modified, whatever the size, max and alignment;
\* for an absent name it returns -1 and writes nothing.
C36_ReadWritesExactly ==
    last_op.op = "fs_read" =>
        LET idx == find_file(fs_table, last_op.name)
            n == IF fs_table[idx].size < last_op.max_size THEN fs_table[idx].size
                 ELSE last_op.max_size
        IN  IF idx < 0
            THEN /\ last_op.ret = -1
                 /\ \A j \in 1 .. Len(last_op.mem) : last_op.mem[j] = <<>>
            ELSE /\ last_op.ret = n
                 /\ \A j \in 1 .. Len(last_op.mem) : j <= n <=> last_op.mem[j] # <<>>

\* ------------------------------------------------------ timer callback claims

\* The API calls the callbacks of one swtimer_tick run made, in order.
CallbackCalls(calls, cb) ==
    SelectSeq([c \in 1 .. Len(calls) |-> cb[calls[c].id]], LAMBDA a : a.kind # "none")

\* The last of those calls that names timer t, as a set of at most one.
LastCallOn(acts, t) ==
    { acts[k] : k \in { k \in 1 .. Len(acts) :
                            /\ acts[k].t = t
                            /\ \A m \in (k + 1) .. Len(acts) : acts[m].t # t } }

\* C38: when callbacks call swtimer_start or swtimer_stop during a
\* swtimer_tick run, a timer whose last such call was a start (a one-shot
\* re-arming itself included) is active and registered when the run ends, one
\* whose last call was a stop is inactive and unregistered, and every timer
\* no callback named that was registered, active and due at the start of the
\* run fired exactly once in it.
C38_CallbackCallsTakeEffect ==
    [][ last_op'.op = "callback_tick" =>
          LET acts == CallbackCalls(last_op'.calls, last_op'.cb)
          IN  \A t \in TimerIds :
                  /\ \A a \in LastCallOn(acts, t) :
                         IF a.kind = "start"
                         THEN timers'[t].active = 1 /\ Registered(t)'
                         ELSE timers'[t].active = 0 /\ ~Registered(t)'
                  /\ ( /\ LastCallOn(acts, t) = {}
                       /\ Registered(t)
                       /\ timers[t].active = 1
                       /\ TimerDue(tick_count, timers[t].expire_tick) )
                     => Cardinality({ c \in 1 .. Len(last_op'.calls) :
                                          last_op'.calls[c].id = t }) = 1 ]_vars

\* -------------------------------------------------------- fs_overwrite claims

\* C39: if fs_overwrite(name, data, len) returns failure for a file that
\* existed before the call, the file table still holds name with the size,
\* sector run and content it had.
C39_FailedOverwriteKeepsFile ==
    [][ ( /\ last_op'.op = "fs_overwrite"
          /\ last_op'.ret < 0
          /\ find_file(fs_table, last_op'.name) >= 0 )
        => LET old == fs_table[find_file(fs_table, last_op'.name)]
               j == find_file(fs_table', last_op'.name)
           IN  /\ j >= 0
               /\ fs_table'[j] = old
               /\ \A d \in RunOf(old) \cap Sectors : fs_data'[d] = fs_data[d] ]_vars

\* ---------------------------------------------------- shared buffer claims

\* C40: whenever fs_upload writes a sector to flash, the sector holds the
\* bytes received for it followed by 0xFF up to the sector's end, also when
\* other tasks ran filesystem calls while the upload waited for bytes.
C40_UploadWritesReceived ==
    [][ ( /\ fs_call[current_task].op = "fs_upload"
          /\ fs_call[current_task].at = "write"
          /\ fs_call'[current_task].at = "ack" )
        => LET c == fs_call[current_task]
           IN  fs_data'[c.start + c.sec] = PaddedSector(c.rx) ]_vars

====
